---- MODULE Spec2Model ----
(***************************************************************************)
(* A model of the STL loader (src/src/stlloader.cpp, src/src/stlloader.h): *)
(* format detection, the binary and the ASCII decoder, the triangle        *)
(* validator and the mesh post-processor, driven by loadFile on one        *)
(* loader instance.                                                        *)
(*                                                                         *)
(* Files are byte sequences.  Both decoders and the sniffer work on the    *)
(* bytes: the binary reader reads little-endian 4-byte and 2-byte blocks   *)
(* at the stream position, the text reader splits the bytes into lines and *)
(* the lines into tokens.                                                  *)
(*                                                                         *)
(* Numbers.  A float that takes part in geometry is kept as an integer     *)
(* count of 1/Den.  The float patterns that occur in the modelled files    *)
(* decode to 0, 1, 2, NaN, Inf, or to a zero/denormal pattern (exponent    *)
(* field 0, magnitude below 2^-126).  A denormal is below every threshold  *)
(* of the program (1e-12, 1e-10, 0.001, the welding tolerance) and is      *)
(* absorbed by any sum with a normal number, so it is kept as 0.  Bounding *)
(* box centres are halves and the normalisation factor 2/maxDimension is 1 *)
(* or 2 for these coordinates, so every value stays an exact multiple of   *)
(* 1/Den (InModelledRange states it).                                      *)
(*                                                                         *)
(* A binary record may also hold powers of two far off that grid (2^64,    *)
(* 2^-20).  Its triangle then counts its coordinates in units of           *)
(* 2^scale / Den, so that the validator sees the magnitudes at which its   *)
(* thresholds and the overflow of a float product decide.  The             *)
(* post-processor is modelled on the grid only: a file that keeps such a   *)
(* triangle is loaded only truncated, so that the load fails after the     *)
(* record was validated.                                                   *)
(***************************************************************************)
EXTENDS Integers, Sequences, FiniteSets, TLC

VARIABLES
    triangles,        \* QVector<STLTriangle> triangles
    vertices,         \* QVector<STLVertex> vertices
    vertexData,       \* QVector<float> vertexData
    indices,          \* QVector<unsigned int> indices
    boundingBox,      \* BoundingBox boundingBox
    fileName,         \* QString fileName
    format,           \* STLFormat format
    errorString,      \* QString errorString
    autoCenter,       \* bool autoCenter
    autoNormalize,    \* bool autoNormalize
    calculateNormals, \* bool calculateNormals
    mergeVertices,    \* bool mergeVertices
    vertexTolerance,  \* float vertexTolerance
    result,           \* the LoadResult the last loadFile call returned ("None" before any)
    lastFile,         \* the path the last loadFile call was given
    lastCut,          \* bytes the file had lost when that call opened it for decoding
    decoded,          \* what the decoder of that call returned (result, triangles, log)
    exact,            \* that call stayed within the exactly modelled numbers
    detected,         \* what detectFormat returned in that call ("None": not reached)
    reused            \* that call was not the first one on the instance

vars == <<triangles, vertices, vertexData, indices, boundingBox, fileName,
          format, errorString, autoCenter, autoNormalize, calculateNormals,
          mergeVertices, vertexTolerance, result, lastFile, lastCut, decoded, exact,
          detected, reused>>

-----------------------------------------------------------------------------
(* Bounds of the model *)

\* records in a generated binary file
MaxRecs == 2
\* facets in a generated text file
MaxFacets == 1

-----------------------------------------------------------------------------
(* Program constants *)

\* fixed-point denominator of the geometry (see the header comment)
Den == 2
BINARY_STL_HEADER_SIZE == 80
BINARY_STL_TRIANGLE_SIZE == 50
\* the sanity ceiling 50000000 = SanityHi * 65536 + SanityLo
SanityHi == 762
SanityLo == 61568
\* stands for FLT_MAX, in units of 1/Den: above every coordinate of the model
FLT_MAX == 1000000

-----------------------------------------------------------------------------
(* Bytes and characters *)

Lower == "abcdefghijklmnopqrstuvwxyz"
Upper == "ABCDEFGHIJKLMNOPQRSTUVWXYZ"
Digits == "0123456789"

RECURSIVE IndexIn(_, _, _)
IndexIn(c, s, i) ==
    IF i > Len(s) THEN 0
    ELSE IF SubSeq(s, i, i) = c THEN i ELSE IndexIn(c, s, i + 1)

\* the ASCII code of a one-character string
Code(c) ==
    IF IndexIn(c, Lower, 1) > 0 THEN 96 + IndexIn(c, Lower, 1)
    ELSE IF IndexIn(c, Upper, 1) > 0 THEN 64 + IndexIn(c, Upper, 1)
    ELSE IF IndexIn(c, Digits, 1) > 0 THEN 47 + IndexIn(c, Digits, 1)
    ELSE IF c = " " THEN 32
    ELSE IF c = "#" THEN 35
    ELSE IF c = "+" THEN 43
    ELSE IF c = "-" THEN 45
    ELSE IF c = "." THEN 46
    ELSE 63

Bytes(s) == [i \in 1..Len(s) |-> Code(SubSeq(s, i, i))]

NL == 10

Rep(b, n) == [i \in 1..n |-> b]

RECURSIVE Concat(_)
Concat(ss) == IF ss = <<>> THEN <<>> ELSE Head(ss) \o Concat(Tail(ss))

-----------------------------------------------------------------------------
(* The files on disk *)

\* little-endian bytes of a 16-bit and of a 32-bit value given as two 16-bit limbs
LE16(n) == <<n % 256, n \div 256>>
LE32(hi, lo) == LE16(lo) \o LE16(hi)

\* single-precision patterns: 0.0, 1.0, 2.0, a quiet NaN, +Inf, powers of two
FloatBytes(v) ==
    CASE v = "0" -> <<0, 0, 0, 0>>
      [] v = "1" -> <<0, 0, 128, 63>>
      [] v = "2" -> <<0, 0, 0, 64>>
      [] v = "nan" -> <<0, 0, 192, 127>>
      [] v = "inf" -> <<0, 0, 128, 127>>
      [] v = "2^64" -> <<0, 0, 128, 95>>
      [] v = "2^65" -> <<0, 0, 0, 96>>
      [] v = "2^-12" -> <<0, 0, 128, 57>>
      [] v = "2^-13" -> <<0, 0, 0, 57>>
      [] v = "2^-14" -> <<0, 0, 128, 56>>
      [] v = "2^-19" -> <<0, 0, 0, 54>>
      [] v = "2^-20" -> <<0, 0, 128, 53>>

\* the twelve floats of the record kinds used to build binary files
RecFloats(r) ==
    CASE r = "A" -> <<"0","0","1",  "0","0","0",  "1","0","0",  "0","1","0">>
      [] r = "B" -> <<"0","0","0",  "0","0","0",  "2","0","0",  "0","0","2">>
      [] r = "NanN" -> <<"nan","0","1",  "0","0","0",  "1","0","0",  "0","1","0">>
      [] r = "InfV" -> <<"0","0","1",  "inf","0","0",  "1","0","0",  "0","1","0">>
      [] r = "Deg" -> <<"0","0","1",  "1","1","1",  "1","1","1",  "1","1","1">>
      [] r = "C" -> <<"0","0","1",  "2","2","2",  "2","0","2",  "2","2","0">>
      [] r = "Col" -> <<"0","0","1",  "0","0","0",  "1","0","0",  "2","0","0">>
      \* area 2^-33 above 1e-10, one pair 2^-20 apart: 2^-40 below 1e-12
      [] r = "Near" -> <<"0","0","1",  "0","0","0",  "2^-20","0","0",  "0","2^-12","0">>
      \* area 2^-34 below 1e-10, every pair at least 2^-19 apart: 2^-38 above 1e-12
      [] r = "Thin" -> <<"0","0","1",  "0","0","0",  "2^-19","0","0",  "0","2^-14","0">>
      \* area 2^-33 above 1e-10, every pair at least 2^-19 apart
      [] r = "Small" -> <<"0","0","1",  "0","0","0",  "2^-19","0","0",  "0","2^-13","0">>
      \* three points of one line, 2^64 * sqrt(2) apart
      [] r = "HugeLine" -> <<"0","0","1",  "0","0","0",  "2^64","2^64","0",  "2^65","2^65","0">>
      \* a right triangle with legs of 2^64
      [] r = "Huge" -> <<"0","0","1",  "0","0","0",  "2^64","0","0",  "0","2^64","0">>

\* the record kinds generated files are made of
RecKinds == {"A", "InfV"}

\* a 50-byte record: normal, three vertices, the 2-byte attribute field
RecBytes(r) ==
    Concat([i \in 1..12 |-> FloatBytes(RecFloats(r)[i])]) \o <<0, 0>>

\* an 80-byte header
HeaderBytes(h) ==
    CASE h = "zero" -> Rep(0, BINARY_STL_HEADER_SIZE)
      [] h = "solid" -> Bytes("solid") \o Rep(32, BINARY_STL_HEADER_SIZE - 5)
      [] h = "SOLID" -> Bytes("SOLID") \o Rep(32, BINARY_STL_HEADER_SIZE - 5)
      [] h = "padsolid" -> <<32, 9>> \o Bytes("Solid") \o Rep(0, BINARY_STL_HEADER_SIZE - 7)
      [] h = "nlsolid" -> <<NL>> \o Bytes("solid") \o Rep(32, BINARY_STL_HEADER_SIZE - 6)

\* the declared triangle count of a binary-layout file holding n records
CountBytes(c, n) ==
    CASE c = "actual" -> LE32(0, n)
      [] c = "zero" -> LE32(0, 0)
      [] c = "plus1" -> LE32(0, n + 1)
      [] c = "minus1" -> LE32(0, n - 1)
      [] c = "50M" -> LE32(SanityHi, SanityLo)
      [] c = "50M-1" -> LE32(SanityHi, SanityLo - 1)
      [] c = "100M" -> LE32(1525, 57600)
      [] c = "wrap" -> LE32(32768, n)   \* n + 2^31: 50 * count = 50 * n modulo 2^32

\* the lines of the blocks used to build text files
BlockLines(b) ==
    CASE b = "A" -> <<"facet normal 0 0 1", " outer loop", "  vertex 0 0 0",
                      "  vertex 1 0 0", "  vertex 0 1 0", " endloop", "endfacet">>
      [] b = "B" -> <<"facet normal 0 0 0", "outer loop", "vertex 0 0 0",
                      "vertex 2 0 0", "vertex 0 0 2", "endloop", "endfacet">>
      [] b = "Deg" -> <<"facet normal 0 0 1", "outer loop", "vertex 1 1 1",
                        "vertex 1 1 1", "vertex 1 1 1", "endloop", "endfacet">>
      [] b = "UPPER" -> <<"FACET normal 0 0 1", "OUTER loop", "VERTEX 0 0 0",
                          "Vertex 1 0 0", "vertex 0 1 0", "ENDLOOP", "EndFacet">>
      [] b = "stray" -> <<"vertex 0 0 0">>
      [] b = "nanv" -> <<"facet normal 0 0 1", "outer loop", "vertex nan 0 0">>
      [] b = "badv" -> <<"facet normal 0 0 1", "outer loop", "vertex x 0 0">>
      [] b = "open" -> <<"facet normal 0 0 1", "outer loop", "vertex 0 0 0">>
      [] b = "note" -> <<"", "# a comment", "color 1 2 3">>
      [] b = "NORMAL" -> <<"facet NORMAL 0 0 1", "outer loop", "vertex 0 0 0",
                           "vertex 1 0 0", "vertex 0 1 0", "endloop", "endfacet">>
      [] b = "LOOP" -> <<"facet normal 0 0 1", "outer LOOP", "vertex 0 0 0",
                         "vertex 1 0 0", "vertex 0 1 0", "endloop", "endfacet">>
      [] b = "badn" -> <<"facet normal x 0 1", "outer loop", "vertex 0 0 0",
                         "vertex 1 0 0", "vertex 0 1 0", "endloop", "endfacet">>
      [] b = "nann" -> <<"facet normal nan 0 1", "outer loop", "vertex 0 0 0",
                         "vertex 1 0 0", "vertex 0 1 0", "endloop", "endfacet">>
      [] b = "N2" -> <<"facet normal 0 0 2", "outer loop", "vertex 0 0 0",
                       "vertex 1 0 0", "vertex 0 1 0", "endloop", "endfacet">>
      [] b = "f" -> <<"facet normal 0 0 1">>
      [] b = "o" -> <<"outer loop">>
      [] b = "v" -> <<"vertex 0 0 0", "vertex 1 0 0", "vertex 0 1 0">>
      [] b = "l" -> <<"endloop">>
      [] b = "e" -> <<"endfacet">>
      [] b = "end" -> <<"endsolid m">>

TextBytes(first, blocks) ==
    Concat([i \in 1..Len(first) |-> Bytes(first[i]) \o <<NL>>])
    \o Concat([i \in 1..Len(blocks) |->
                 Concat([j \in 1..Len(BlockLines(blocks[i])) |->
                           Bytes(BlockLines(blocks[i])[j]) \o <<NL>>])])

SeqsUpTo(S, n) == UNION {[1..k -> S] : k \in 0..n}

\* A path names a file by what is in it.
Path(k, h, c, body) == [k |-> k, h |-> h, c |-> c, body |-> body]

NoPath == Path("", "", "", <<>>)

\* bodies whose first record is kept with coordinates off the grid
OffGridBodies == {<<"Small", "A">>, <<"HugeLine", "A">>, <<"Huge", "A">>}

BinPaths ==
    {Path("bin", "zero", "actual", b) : b \in SeqsUpTo(RecKinds, MaxRecs) \ {<<>>}}
    \cup {Path("bin", "zero", "actual", b) :
            b \in {<<"B">>, <<"Deg">>, <<"NanN">>, <<"A", "B">>, <<"Deg", "A">>, <<"A", "Deg">>,
                   <<"NanN", "A">>, <<"A", "NanN">>}}
    \cup {Path("bin", h, "actual", <<"A">>) : h \in {"solid", "SOLID", "padsolid", "nlsolid"}}
    \cup {Path("bin", h, "zero", <<>>) : h \in {"zero", "solid"}}
    \cup {Path("bin", h, c, <<"A">>) :
            h \in {"zero", "solid"}, c \in {"plus1", "50M", "50M-1", "100M", "wrap"}}
    \cup {Path("bin", "zero", "minus1", <<"A", "B">>)}
    \cup {Path("bin", "zero", "actual", b) :
            b \in {<<"A", "C">>, <<"Col">>, <<"Col", "A">>, <<"Near", "A">>, <<"Thin", "A">>,
                   <<"B", "A">>} \cup OffGridBodies}

\* text bodies built line by line: keywords in and out of place, vertex lines
\* outside a loop, second words in capitals, loops with too many and too few
\* vertex lines, a second loop in one facet, lines after 'endsolid', normals
\* with a word or a NaN for a component, a normal of length 2, files that end
\* inside a facet
GrammarBodies ==
    {<<"f", "f">>, <<"f", "o", "f">>, <<"o">>, <<"f", "o", "o">>, <<"l">>, <<"f", "l">>,
     <<"e">>, <<"f", "o", "e">>, <<"f", "e", "end">>, <<"A", "f", "e", "end">>,
     <<"stray">>, <<"f", "stray">>, <<"f", "o", "v", "l", "stray">>,
     <<"note", "A", "note", "stray">>, <<"f", "o", "v", "l", "e", "end">>,
     <<"NORMAL", "end">>, <<"LOOP", "end">>,
     <<"f", "o", "v", "stray">>, <<"f", "o", "l">>, <<"open", "l">>,
     <<"f", "o", "v", "l", "o", "stray">>, <<"f", "o", "v", "l", "o", "l", "e", "end">>,
     <<"f", "end", "stray">>, <<"f", "o", "end", "stray">>, <<"A", "open", "end", "A">>,
     <<"end", "A">>, <<"badn", "end">>, <<"nann", "end">>,
     <<"N2", "end">>,
     <<"f">>, <<"f", "o">>, <<"open">>, <<"A", "f">>, <<"A", "f", "o", "v", "l">>}

TextPaths ==
    {Path("text", "solid", "", b \o e) :
        b \in SeqsUpTo({"A", "Deg"}, MaxFacets), e \in {<<>>, <<"end">>}}
    \cup {Path("text", "solid", "", b) :
            b \in {<<"B", "end">>, <<"A", "B", "end">>, <<"A", "stray">>, <<"A", "nanv">>, <<"A", "badv">>, <<"A", "open">>,
                   <<"UPPER", "end">>, <<"note", "A", "note", "end">>,
                   <<"A", "end", "stray">>}}
    \cup {Path("text", "solid", "", b) : b \in GrammarBodies}
    \cup {Path("text", h, "", <<"A", "end">>) : h \in {"SOLID", "blank", "other"}}

RawPaths ==
    {Path(k, "", "", <<>>) : k \in {"missing", "locked", "locked0", "empty", "zeros", "word"}}

Paths == BinPaths \cup TextPaths \cup RawPaths

FirstLines(h) ==
    CASE h = "solid" -> <<"solid m">>
      [] h = "SOLID" -> <<"  SoLiD m">>
      [] h = "blank" -> <<"", "solid m">>
      [] h = "other" -> <<"mesh m">>

\* what QFileInfo and QFile see at a path
FileAt(p) ==
    CASE p.k = "bin" ->
            [exists |-> TRUE, readable |-> TRUE,
             bytes |-> HeaderBytes(p.h) \o CountBytes(p.c, Len(p.body))
                       \o Concat([i \in 1..Len(p.body) |-> RecBytes(p.body[i])])]
      [] p.k = "text" ->
            [exists |-> TRUE, readable |-> TRUE,
             bytes |-> TextBytes(FirstLines(p.h), p.body)]
      [] p.k = "missing" -> [exists |-> FALSE, readable |-> FALSE, bytes |-> <<>>]
      [] p.k = "locked" -> [exists |-> TRUE, readable |-> FALSE, bytes |-> Bytes("solid")]
      [] p.k = "locked0" -> [exists |-> TRUE, readable |-> FALSE, bytes |-> <<>>]
      [] p.k = "empty" -> [exists |-> TRUE, readable |-> TRUE, bytes |-> <<>>]
      [] p.k = "zeros" -> [exists |-> TRUE, readable |-> TRUE, bytes |-> Rep(0, 10)]
      [] p.k = "word" -> [exists |-> TRUE, readable |-> TRUE, bytes |-> Bytes("solid")]

FS == [p \in Paths |-> FileAt(p)]

-----------------------------------------------------------------------------
(* Format detection *)

\* quint32 as two 16-bit limbs; arithmetic wraps modulo 2^32
U32(hi, lo) == [hi |-> hi, lo |-> lo]

U32Mul(a, k) ==
    U32((a.hi * k + (a.lo * k) \div 65536) % 65536, (a.lo * k) % 65536)

U32Add(a, k) ==
    U32((a.hi + (a.lo + k) \div 65536) % 65536, (a.lo + k) % 65536)

\* a qint64 that is known to be a small non-negative number equals a quint32
EqualsU32(n, a) == n \div 65536 = a.hi /\ n % 65536 = a.lo

U32Less(a, hi, lo) == a.hi < hi \/ (a.hi = hi /\ a.lo < lo)

\* stream >> triangleCount after file.seek(80), little-endian
CountAt80(bytes) ==
    U32(bytes[BINARY_STL_HEADER_SIZE + 3] + 256 * bytes[BINARY_STL_HEADER_SIZE + 4],
        bytes[BINARY_STL_HEADER_SIZE + 1] + 256 * bytes[BINARY_STL_HEADER_SIZE + 2])

\* an isBinarySTL that does not compare the size of the file
isBinarySTLAnySize(f) ==
    /\ f.readable
    /\ Len(f.bytes) >= BINARY_STL_HEADER_SIZE + 4
    /\ CountAt80(f.bytes) # U32(0, 0)
    /\ U32Less(CountAt80(f.bytes), SanityHi, SanityLo)

\* an isBinarySTL without the sanity ceiling
isBinarySTLNoCeiling(f) ==
    /\ f.readable
    /\ Len(f.bytes) >= BINARY_STL_HEADER_SIZE + 4
    /\ LET triangleCount == CountAt80(f.bytes)
           expectedSize == U32Add(U32Mul(triangleCount, BINARY_STL_TRIANGLE_SIZE),
                                  BINARY_STL_HEADER_SIZE + 4)
       IN  /\ EqualsU32(Len(f.bytes), expectedSize)
           /\ ~(triangleCount.hi = 0 /\ triangleCount.lo = 0)

isBinarySTL(f) ==
    /\ f.readable
    /\ Len(f.bytes) >= BINARY_STL_HEADER_SIZE + 4
    /\ LET triangleCount == CountAt80(f.bytes)
           expectedSize == U32Add(U32Mul(triangleCount, BINARY_STL_TRIANGLE_SIZE),
                                  BINARY_STL_HEADER_SIZE + 4)
       IN  /\ EqualsU32(Len(f.bytes), expectedSize)
           /\ ~(triangleCount.hi = 0 /\ triangleCount.lo = 0)
           /\ U32Less(triangleCount, SanityHi, SanityLo)

\* QChar::isSpace on the characters that occur: tab, LF, VT, FF, CR, space
IsSpace(b) == b \in 9..13 \/ b = 32

\* QString::toLower on the characters that occur
ToLowerByte(b) == IF b \in 65..90 THEN b + 32 ELSE b

toLower(s) == [i \in 1..Len(s) |-> ToLowerByte(s[i])]

\* the smallest and the largest element of a non-empty set of numbers
Least(S) == CHOOSE i \in S : \A j \in S : i <= j
Greatest(S) == CHOOSE i \in S : \A j \in S : i >= j

\* s without its leading whitespace
TrimLeft(s) ==
    LET keep == {i \in 1..Len(s) : ~IsSpace(s[i])}
    IN  IF keep = {} THEN <<>> ELSE SubSeq(s, Least(keep), Len(s))

\* QString::trimmed
trimmed(s) ==
    LET keep == {i \in 1..Len(s) : ~IsSpace(s[i])}
    IN  IF keep = {} THEN <<>> ELSE SubSeq(s, Least(keep), Greatest(keep))

startsWith(s, prefix) ==
    Len(s) >= Len(prefix) /\ SubSeq(s, 1, Len(prefix)) = prefix

\* position of the first line feed at or after index i, or 0
FindNL(bytes, i) ==
    LET at == {j \in i..Len(bytes) : bytes[j] = NL}
    IN  IF at = {} THEN 0 ELSE Least(at)

\* the lines QTextStream::readLine returns until atEnd
RECURSIVE SplitLines(_)
SplitLines(bytes) ==
    IF bytes = <<>> THEN <<>>
    ELSE LET n == FindNL(bytes, 1)
         IN  IF n = 0 THEN <<bytes>>
             ELSE <<SubSeq(bytes, 1, n - 1)>> \o SplitLines(SubSeq(bytes, n + 1, Len(bytes)))

\* the first readLine of a stream (a null string on an empty stream)
FirstLine(bytes) ==
    LET n == FindNL(bytes, 1)
    IN  IF n = 0 THEN bytes ELSE SubSeq(bytes, 1, n - 1)

ASCII_STL_HEADER == Bytes("solid")

isASCIISTL(f) ==
    /\ f.readable
    /\ startsWith(toLower(trimmed(FirstLine(f.bytes))), ASCII_STL_HEADER)

detectFormat(f) ==
    IF isBinarySTL(f) THEN "Binary"
    ELSE IF isASCIISTL(f) THEN "ASCII"
    ELSE "Unknown"

-----------------------------------------------------------------------------
(* Floats *)

Num(v) == [cls |-> "num", val |-> v]

\* A little-endian IEEE-754 single.  Exponent field 255 is Inf (mantissa 0) or
\* NaN; exponent field 0 is zero or a denormal, kept as 0; 1.0 and 2.0 are the
\* normal numbers of the modelled files on the grid; another power of two
\* 2^e is kept as Den units of 2^e / Den.  Any other pattern is outside the
\* modelled range and is flagged.
DecodeFloat(b) ==
    LET exp == (b[4] % 128) * 2 + b[3] \div 128
        man == (b[3] % 128) * 65536 + b[2] * 256 + b[1]
        neg == b[4] >= 128
    IN  IF exp = 255 THEN [cls |-> IF man = 0 THEN "inf" ELSE "nan", val |-> 0]
        ELSE IF exp = 0 THEN Num(0)
        ELSE IF man = 0 /\ exp \in 127..128
             THEN Num((IF neg THEN -1 ELSE 1) * Den * (IF exp = 127 THEN 1 ELSE 2))
        ELSE IF man = 0
             THEN [cls |-> "pow", val |-> (IF neg THEN -1 ELSE 1) * Den, exp |-> exp - 127]
        ELSE [cls |-> "other", val |-> 0]

qIsNaN(x) == x.cls = "nan"
qIsInf(x) == x.cls = "inf"

\* k / d < 10^(-e), for k >= 0 and d > 0
RECURSIVE LtPow10(_, _, _)
LtPow10(k, d, e) ==
    IF e = 0 THEN k < d
    ELSE IF k >= d THEN FALSE
    ELSE LtPow10(10 * k, d, e - 1)

\* QVector3D, component-wise in units of 1/Den
Vec(x, y, z) == <<x, y, z>>
VSub(a, b) == <<a[1] - b[1], a[2] - b[2], a[3] - b[3]>>
VAdd(a, b) == <<a[1] + b[1], a[2] + b[2], a[3] + b[3]>>
crossProduct(a, b) ==
    <<a[2] * b[3] - a[3] * b[2], a[3] * b[1] - a[1] * b[3], a[1] * b[2] - a[2] * b[1]>>
lengthSquared(a) == a[1] * a[1] + a[2] * a[2] + a[3] * a[3]

STLTriangle(n, v1, v2, v3) == [normal |-> n, vertex1 |-> v1, vertex2 |-> v2, vertex3 |-> v3]

\* a triangle whose vertex coordinates are counted in units of 2^s / Den
InUnits(t, s) ==
    IF s = 0 THEN t
    ELSE [normal |-> t.normal, vertex1 |-> t.vertex1, vertex2 |-> t.vertex2,
          vertex3 |-> t.vertex3, scale |-> s]

ScaleOf(t) == IF "scale" \in DOMAIN t THEN t.scale ELSE 0

\* natural numbers of any size: digits to the base 10000, the lowest first
RECURSIVE Big(_)
Big(n) == IF n = 0 THEN <<>> ELSE <<n % 10000>> \o Big(n \div 10000)

\* a * m + carry, for 1 <= m <= 10000
RECURSIVE BigTimes(_, _, _)
BigTimes(a, m, carry) ==
    IF a = <<>> THEN Big(carry)
    ELSE <<(Head(a) * m + carry) % 10000>>
         \o BigTimes(Tail(a), m, (Head(a) * m + carry) \div 10000)

\* a * 2^t
RECURSIVE BigShift(_, _)
BigShift(a, t) ==
    IF t = 0 THEN a
    ELSE IF t >= 10 THEN BigShift(BigTimes(a, 1024, 0), t - 10)
    ELSE BigShift(BigTimes(a, 2, 0), t - 1)

\* a * 10^e
RECURSIVE BigE(_, _)
BigE(a, e) ==
    IF e = 0 THEN a
    ELSE IF e >= 4 THEN BigE(BigTimes(a, 10000, 0), e - 4)
    ELSE BigE(BigTimes(a, 10, 0), e - 1)

RECURSIVE BigLessFrom(_, _, _)
BigLessFrom(a, b, i) ==
    IF i = 0 THEN FALSE
    ELSE IF a[i] # b[i] THEN a[i] < b[i]
    ELSE BigLessFrom(a, b, i - 1)

BigLess(a, b) == IF Len(a) # Len(b) THEN Len(a) < Len(b) ELSE BigLessFrom(a, b, Len(a))

\* k * 2^t / d < 10^(-e), for k >= 0, d > 0 and any integer t
LtScaled(k, d, t, e) ==
    IF t >= 0 THEN BigLess(BigE(BigShift(Big(k), t), e), Big(d))
    ELSE BigLess(BigE(Big(k), e), BigShift(Big(d), -t))

\* A product or a difference of two coordinates, k units of 2^t / Den^2, is at
\* least 2^128 in magnitude: as a float it is an infinity.
Overflows(k, t) ==
    /\ t > 0
    /\ ~BigLess(BigShift(Big(IF k < 0 THEN -k ELSE k), t), BigShift(Big(Den * Den), 128))

\* The component a * b - c * d of QVector3D::crossProduct is not a finite float:
\* a product overflowed (an infinity, or inf - inf = NaN) or the difference did.
NotFinite(a, b, c, d, t) ==
    Overflows(a * b, t) \/ Overflows(c * d, t) \/ Overflows(a * b - c * d, t)

CrossNotFinite(a, b, t) ==
    \/ NotFinite(a[2], b[3], a[3], b[2], t)
    \/ NotFinite(a[3], b[1], a[1], b[3], t)
    \/ NotFinite(a[1], b[2], a[2], b[1], t)

-----------------------------------------------------------------------------
(* The triangle validator *)

\* area = |cross| * 0.5 < 1e-10 is |cross|^2 / 4 < 1e-20; with the coordinates in
\* units of 2^s / Den the cross product is in units of 2^(2s) / Den^2, a squared
\* length of positions in units of 2^(2s) / Den^2.  A cross product that is not
\* finite has a length that is an infinity or a NaN, and neither compares below
\* 1e-10.  A squared length that overflows is an infinity, not below 1e-12 as the
\* exact value is not; one that underflows is below 1e-12 as the exact value is.
isValidTriangle(triangle) ==
    LET s == ScaleOf(triangle)
        edge1 == VSub(triangle.vertex2, triangle.vertex1)
        edge2 == VSub(triangle.vertex3, triangle.vertex1)
        cross == crossProduct(edge1, edge2)
    IN  /\ \/ CrossNotFinite(edge1, edge2, 2 * s)
           \/ ~LtScaled(lengthSquared(cross), 4 * Den * Den * Den * Den, 4 * s, 20)
        /\ ~LtScaled(lengthSquared(VSub(triangle.vertex1, triangle.vertex2)), Den * Den, 2 * s, 12)
        /\ ~LtScaled(lengthSquared(VSub(triangle.vertex2, triangle.vertex3)), Den * Den, 2 * s, 12)
        /\ ~LtScaled(lengthSquared(VSub(triangle.vertex3, triangle.vertex1)), Den * Den, 2 * s, 12)

-----------------------------------------------------------------------------
(* The binary decoder *)

\* QDataStream over a QFile: the device position and the stream status
Stream(pos, ok) == [pos |-> pos, ok |-> ok]

\* QDataStream::readBlock: a short read leaves the device at its end and sets
\* the status to ReadPastEnd, which later successful reads do not reset
ReadBlock(bytes, st, n) ==
    IF st.pos + n <= Len(bytes)
    THEN [data |-> SubSeq(bytes, st.pos + 1, st.pos + n), st |-> Stream(st.pos + n, st.ok)]
    ELSE [data |-> <<>>, st |-> Stream(Len(bytes), FALSE)]

\* a stream left in QDataStream's default byte order, big-endian
ReadFloatBigEndian(bytes, st) ==
    LET r == ReadBlock(bytes, st, 4)
    IN  [f |-> IF r.data = <<>> THEN Num(0)
               ELSE DecodeFloat(<<r.data[4], r.data[3], r.data[2], r.data[1]>>),
         st |-> r.st]

\* stream >> float: 0.0f when the four bytes could not be read
ReadFloat(bytes, st) ==
    LET r == ReadBlock(bytes, st, 4)
    IN  [f |-> IF r.data = <<>> THEN Num(0) ELSE DecodeFloat(r.data), st |-> r.st]

\* the floats read so far and the stream, after one more stream >> float
ReadOneMore(read, r) == [fs |-> Append(read.fs, r.f), st |-> r.st]

RECURSIVE ReadMore(_, _, _)
ReadMore(bytes, read, k) ==
    IF k = 0 THEN read
    ELSE ReadMore(bytes, ReadOneMore(read, ReadFloat(bytes, read.st)), k - 1)

\* k floats read one after the other
ReadFloats(bytes, st, k) == ReadMore(bytes, [fs |-> <<>>, st |-> st], k)

AnyNaNOrInf(fs) == \E j \in 1..Len(fs) : qIsNaN(fs[j]) \/ qIsInf(fs[j])

\* the binary exponents of the floats of fs that are off the grid
Exps(fs) == {fs[j].exp : j \in {i \in 1..Len(fs) : fs[i].cls = "pow"}}

\* the scale the coordinates of a record are counted in: 0 on the grid
RecordScale(fs) ==
    IF Exps(fs) = {} THEN 0 ELSE CHOOSE e \in Exps(fs) : \A x \in Exps(fs) : e <= x

\* a float in units of 2^s / Den
Units(f, s) == IF f.cls = "pow" THEN f.val * 2^(f.exp - s) ELSE f.val

\* the floats of a record are within the modelled numbers: a normal on the grid,
\* coordinates all on the grid or all zeros and powers of two close to each other
Modelled(fs) ==
    /\ \A j \in 1..Len(fs) : fs[j].cls # "other"
    /\ \A j \in 1..Len(fs) : j <= 3 => fs[j].cls # "pow"
    /\ RecordScale(fs) # 0 =>
          \A j \in 4..Len(fs) : IF fs[j].cls = "pow" THEN fs[j].exp - RecordScale(fs) <= 8
                                 ELSE fs[j].val = 0

\* what one iteration of the record loop did
Step(i, kind, start, st, fs) ==
    [i |-> i, kind |-> kind, start |-> start, pos |-> st.pos, failed |-> ~st.ok,
     exact |-> Modelled(fs)]

ErrorText(msg, arg) == [msg |-> msg, arg |-> arg]
NoError == ErrorText("", 0)

Outcome(res, tris, err, log) == [result |-> res, triangles |-> tris, errorString |-> err, log |-> log]

\* the triangle the twelve floats of a record make
RecordTriangle(fs) ==
    LET s == RecordScale(fs)
    IN  InUnits(STLTriangle(Vec(fs[1].val, fs[2].val, fs[3].val),
                            Vec(Units(fs[4], s), Units(fs[5], s), Units(fs[6], s)),
                            Vec(Units(fs[7], s), Units(fs[8], s), Units(fs[9], s)),
                            Vec(Units(fs[10], s), Units(fs[11], s), Units(fs[12], s))),
                s)

\* one pass through the body of the for loop: how it ended, where it left the
\* stream, the floats it read
Pass(kind, st, fs) == [kind |-> kind, st |-> st, fs |-> fs]

\* the body of the for loop after stream >> attribute
AfterAttribute(fs, attribute) ==
    Pass(IF ~attribute.st.ok THEN "readError"
         ELSE IF isValidTriangle(RecordTriangle(fs)) THEN "kept"
         ELSE "degenerate",
         attribute.st, fs)

\* the body of the for loop after the nine coordinates were read
AfterVertices(bytes, nrm, vs) ==
    IF AnyNaNOrInf(vs.fs) THEN Pass("badVertex", vs.st, nrm.fs \o vs.fs)
    ELSE AfterAttribute(nrm.fs \o vs.fs, ReadBlock(bytes, vs.st, 2))

\* the body of the for loop after the normal was read
AfterNormal(bytes, nrm) ==
    IF AnyNaNOrInf(nrm.fs) THEN Pass("badNormal", nrm.st, nrm.fs)
    ELSE AfterVertices(bytes, nrm, ReadFloats(bytes, nrm.st, 9))

\* the body of the for loop with the stream at st
LoopBody(bytes, st) == AfterNormal(bytes, ReadFloats(bytes, st, 3))

\* The record loop from iteration i on: tris are the triangles appended so far,
\* err the error string so far.  n is the declared count.
RECURSIVE RecordLoop(_, _, _, _, _, _, _)

\* the loop after the pass of iteration i, which began at position start
Iterated(bytes, n, i, start, tris, err, log, pass) ==
    IF pass.kind = "readError"
    THEN Outcome("ReadError", tris, ErrorText("Error reading triangle %1 from file", i),
                 Append(log, Step(i, pass.kind, start, pass.st, pass.fs)))
    ELSE RecordLoop(bytes, n, i + 1, pass.st,
                    IF pass.kind = "kept" THEN Append(tris, RecordTriangle(pass.fs)) ELSE tris,
                    err, Append(log, Step(i, pass.kind, start, pass.st, pass.fs)))

RecordLoop(bytes, n, i, st, tris, err, log) ==
    IF i >= n
    THEN IF tris = <<>>
         THEN Outcome("EmptyFile", tris, ErrorText("No valid triangles found in this file", 0), log)
         ELSE Outcome("Success", tris, err, log)
    ELSE Iterated(bytes, n, i, st.pos, tris, err, log, LoopBody(bytes, st))

\* loadBinarySTL on the bytes the opened file holds, appending to tris
loadBinarySTL(bytes, tris, err) ==
    IF Len(bytes) < BINARY_STL_HEADER_SIZE + 4
    THEN Outcome("CorruptedFile", tris, ErrorText("File is too small to be a valid binary STL", 0), <<>>)
    ELSE
    LET triangleCount == CountAt80(bytes)
    IN  IF triangleCount.hi = 0 /\ triangleCount.lo = 0
        THEN Outcome("EmptyFile", tris, ErrorText("This STL file contains no triangles", 0), <<>>)
        ELSE IF ~U32Less(triangleCount, SanityHi, SanityLo + 1)
        THEN Outcome("CorruptedFile", tris,
                     ErrorText("This file claims to have an unreasonable number of triangles: ", 0), <<>>)
        ELSE RecordLoop(bytes, triangleCount.hi * 65536 + triangleCount.lo, 0,
                        Stream(BINARY_STL_HEADER_SIZE + 4, TRUE), tris, err, <<>>)

-----------------------------------------------------------------------------
(* The ASCII decoder *)

\* line.split(QRegularExpression("\\s+"), Qt::SkipEmptyParts)
\* the characters of s before its first whitespace
TakeWord(s) ==
    LET sp == {i \in 1..Len(s) : IsSpace(s[i])}
    IN  IF sp = {} THEN s ELSE SubSeq(s, 1, Least(sp) - 1)

RECURSIVE split(_)
split(line) ==
    LET s == TrimLeft(line)
    IN  IF s = <<>> THEN <<>>
        ELSE LET w == TakeWord(s)
             IN  <<w>> \o split(SubSeq(s, Len(w) + 1, Len(s)))

\* parseASCIILine: the keyword is lowercased, the values are kept as written
parseASCIILine(line) ==
    LET tokens == split(line)
    IN  IF tokens = <<>> THEN [ok |-> FALSE, keyword |-> <<>>, values |-> <<>>]
        ELSE [ok |-> TRUE, keyword |-> toLower(tokens[1]), values |-> Tail(tokens)]

IsDigit(b) == b \in 48..57

RECURSIVE DigitsValue(_, _)
DigitsValue(s, acc) ==
    IF s = <<>> THEN acc ELSE DigitsValue(Tail(s), 10 * acc + (Head(s) - 48))

\* QString::toFloat on the tokens that occur: an optionally signed run of digits,
\* "nan", "inf" (any letter case).  A token made of number characters that is none
\* of these (a fraction, an exponent) is outside the modelled range and flagged;
\* everything else fails to parse.
toFloat(tok) ==
    LET signed == tok # <<>> /\ Head(tok) \in {43, 45}
        body == IF signed THEN Tail(tok) ELSE tok
        low == toLower(body)
    IN  IF body # <<>> /\ Len(body) <= 6 /\ \A j \in 1..Len(body) : IsDigit(body[j])
        THEN [ok |-> TRUE,
              f |-> Num((IF signed /\ Head(tok) = 45 THEN -1 ELSE 1) * Den * DigitsValue(body, 0))]
        ELSE IF low = Bytes("nan") /\ ~signed THEN [ok |-> TRUE, f |-> [cls |-> "nan", val |-> 0]]
        ELSE IF low = Bytes("inf") THEN [ok |-> TRUE, f |-> [cls |-> "inf", val |-> 0]]
        ELSE IF body # <<>> /\ \A j \in 1..Len(body) :
                    IsDigit(body[j]) \/ body[j] \in {43, 45, 46, 69, 101}
        THEN [ok |-> TRUE, f |-> [cls |-> "other", val |-> 0]]
        ELSE [ok |-> FALSE, f |-> Num(0)]

\* the local variables of loadASCIISTL, with the triangle list and a log of the
\* parser state after every line read
Parser(lineNumber, currentTriangle, vertexCount, inFacet, inLoop, tris, log) ==
    [lineNumber |-> lineNumber, currentTriangle |-> currentTriangle,
     vertexCount |-> vertexCount, inFacet |-> inFacet, inLoop |-> inLoop,
     tris |-> tris, log |-> log, exact |-> TRUE]

Seen(ps, what) ==
    [line |-> ps.lineNumber, what |-> what, inFacet |-> ps.inFacet, inLoop |-> ps.inLoop,
     vertexCount |-> ps.vertexCount, count |-> Len(ps.tris), exact |-> ps.exact]

Logged(ps, what) == [ps EXCEPT !.log = Append(ps.log, Seen(ps, what))]

Corrupted(ps, msg) ==
    Outcome("CorruptedFile", ps.tris, ErrorText(msg, ps.lineNumber),
            Append(ps.log, Seen(ps, "error")))

\* a post-loop step that returns Success whatever the list holds
AsciiEndAlwaysSuccess(ps, err) == Outcome("Success", ps.tris, err, ps.log)

\* a post-loop step that takes a facet left open for an error
AsciiEndOpenFacetIsError(ps, err) ==
    IF ps.inFacet THEN Corrupted(ps, "Line %1: Unexpected end of file")
    ELSE IF ps.tris = <<>>
    THEN Outcome("EmptyFile", ps.tris, ErrorText("No valid triangles found in text STL file", 0), ps.log)
    ELSE Outcome("Success", ps.tris, err, ps.log)

\* after the while loop: the test of triangles.isEmpty()
AsciiEnd(ps, err) ==
    IF ps.tris = <<>>
    THEN Outcome("EmptyFile", ps.tris, ErrorText("No valid triangles found in text STL file", 0), ps.log)
    ELSE Outcome("Success", ps.tris, err, ps.log)

Go(ps, what) == [kind |-> "go", ps |-> Logged(ps, what), msg |-> ""]
Fail(ps, msg) == [kind |-> "fail", ps |-> ps, msg |-> msg]

\* the normal of a "facet normal" line: one component that fails to parse zeroes
\* all three, a NaN or Inf component is zeroed alone
NormalOf(n1, n2, n3) ==
    LET allOk == n1.ok /\ n2.ok /\ n3.ok
        fix(n) == IF ~allOk \/ qIsNaN(n.f) \/ qIsInf(n.f) THEN 0 ELSE n.f.val
    IN  Vec(fix(n1), fix(n2), fix(n3))

FacetNormal(values) == NormalOf(toFloat(values[2]), toFloat(values[3]), toFloat(values[4]))

\* a vertex line that keeps counting past the third vertex
VertexLineNoLimit(ps, v1, v2, v3) ==
    IF ~ps.inLoop THEN Fail(ps, "Line %1: Found vertex outside of loop")
    ELSE Go([ps EXCEPT !.currentTriangle.vertex3 = Vec(v1.f.val, v2.f.val, v3.f.val),
                       !.vertexCount = ps.vertexCount + 1], "vertex")

\* a "vertex" line whose three values parsed to v1, v2, v3
VertexLine(ps, v1, v2, v3) ==
    LET vertex == Vec(v1.f.val, v2.f.val, v3.f.val)
        pv == [ps EXCEPT !.exact = \A v \in {v1, v2, v3} : v.f.cls # "other"]
    IN  IF ~ps.inLoop THEN Fail(ps, "Line %1: Found vertex outside of loop")
        ELSE IF ~v1.ok \/ ~v2.ok \/ ~v3.ok
        THEN Fail(ps, "Line %1: Cannot read vertex coordinates")
        ELSE IF AnyNaNOrInf(<<v1.f, v2.f, v3.f>>)
        THEN Fail(ps, "Line %1: Vertex has corrupted coordinates")
        ELSE IF ps.vertexCount = 0
        THEN Go([pv EXCEPT !.currentTriangle.vertex1 = vertex, !.vertexCount = 1], "vertex")
        ELSE IF ps.vertexCount = 1
        THEN Go([pv EXCEPT !.currentTriangle.vertex2 = vertex, !.vertexCount = 2], "vertex")
        ELSE IF ps.vertexCount = 2
        THEN Go([pv EXCEPT !.currentTriangle.vertex3 = vertex, !.vertexCount = 3], "vertex")
        ELSE Fail(ps, "Line %1: Triangle has too many vertices")

\* the chain of keyword tests on a line that parseASCIILine accepted
KeywordLine(ps, keyword, values) ==
    IF keyword = Bytes("facet") /\ Len(values) >= 4 /\ values[1] = Bytes("normal")
    THEN IF ps.inFacet
         THEN Fail(ps, "Line %1: Found new triangle before finishing previous one")
         ELSE Go([ps EXCEPT !.currentTriangle.normal = FacetNormal(values),
                            !.inFacet = TRUE, !.vertexCount = 0,
                            !.exact = \A j \in 2..4 : toFloat(values[j]).f.cls # "other"],
                 "facet")
    ELSE IF keyword = Bytes("outer") /\ Len(values) >= 1 /\ values[1] = Bytes("loop")
    THEN IF ~ps.inFacet \/ ps.inLoop
         THEN Fail(ps, "Line %1: 'outer loop' in wrong place")
         ELSE Go([ps EXCEPT !.inLoop = TRUE], "outer")
    ELSE IF keyword = Bytes("vertex") /\ Len(values) >= 3
    THEN VertexLine(ps, toFloat(values[1]), toFloat(values[2]), toFloat(values[3]))
    ELSE IF keyword = Bytes("endloop")
    THEN IF ~ps.inLoop THEN Fail(ps, "Line %1: 'endloop' without matching 'outer loop'")
         ELSE IF ps.vertexCount # 3
         THEN Fail(ps, "Line %1: Triangle has %2 vertices but should have exactly 3")
         ELSE Go([ps EXCEPT !.inLoop = FALSE], "endloop")
    ELSE IF keyword = Bytes("endfacet")
    THEN IF ~ps.inFacet \/ ps.inLoop
         THEN Fail(ps, "Line %1: 'endfacet' without proper triangle structure")
         ELSE IF isValidTriangle(ps.currentTriangle)
         THEN Go([ps EXCEPT !.tris = Append(ps.tris, ps.currentTriangle), !.inFacet = FALSE],
                 "endfacet")
         ELSE Go([ps EXCEPT !.inFacet = FALSE], "endfacet")
    ELSE IF keyword = Bytes("endsolid")
    THEN [kind |-> "stop", ps |-> Logged(ps, "endsolid"), msg |-> ""]
    ELSE Go(ps, "ignored")

\* the body of the while loop once parseASCIILine has returned
ParsedLine(ps, parsed) ==
    IF ~parsed.ok THEN Go(ps, "skip") ELSE KeywordLine(ps, parsed.keyword, parsed.values)

\* the body of the while loop for one non-blank line; ps already counts the line
AsciiLine(ps, line) == ParsedLine(ps, parseASCIILine(line))

\* the while loop of loadASCIISTL over the lines not yet read; p is the parser
\* state before the next readLine
RECURSIVE AsciiLoop(_, _, _)

\* a loop that reads on after a line failed
AfterLineReadsOn(lines, err, r) ==
    CASE r.kind = "fail" -> AsciiLoop(Tail(lines), Logged(r.ps, "error"), err)
      [] r.kind = "stop" -> AsciiEnd(r.ps, err)
      [] r.kind = "go" -> AsciiLoop(Tail(lines), r.ps, err)

\* a loop that reads on after an 'endsolid' line
AfterLineIgnoresEndsolid(lines, err, r) ==
    CASE r.kind = "fail" -> Corrupted(r.ps, r.msg)
      [] r.kind = "stop" -> AsciiLoop(Tail(lines), r.ps, err)
      [] r.kind = "go" -> AsciiLoop(Tail(lines), r.ps, err)

\* the loop after the body ran on the first of lines and gave r
AfterLine(lines, err, r) ==
    CASE r.kind = "fail" -> Corrupted(r.ps, r.msg)
      [] r.kind = "stop" -> AsciiEnd(r.ps, err)
      [] r.kind = "go" -> AsciiLoop(Tail(lines), r.ps, err)

AsciiLoop(lines, p, err) ==
    IF lines = <<>> THEN AsciiEnd(p, err)
    ELSE
    LET line == trimmed(Head(lines))
        ps == [p EXCEPT !.lineNumber = p.lineNumber + 1]
    IN  IF line = <<>> \/ startsWith(line, Bytes("#"))
        THEN AsciiLoop(Tail(lines), Logged(ps, "skip"), err)
        ELSE AfterLine(lines, err, AsciiLine(ps, line))

\* loadASCIISTL on the bytes the opened file holds, appending to tris
loadASCIISTL(bytes, tris, err) ==
    LET lines == SplitLines(bytes)
        line == trimmed(FirstLine(bytes))
    IN  IF ~startsWith(toLower(line), ASCII_STL_HEADER)
        THEN Outcome("InvalidFormat", tris,
                     ErrorText("Text STL should start with 'solid' but line %1 says: %2", 1), <<>>)
        ELSE AsciiLoop(IF lines = <<>> THEN <<>> ELSE Tail(lines),
                       Parser(1, STLTriangle(Vec(0, 0, 0), Vec(0, 0, 0), Vec(0, 0, 0), Vec(0, 0, 0)),
                              0, FALSE, FALSE, tris, <<>>),
                       err)

-----------------------------------------------------------------------------
(* The mesh post-processor *)

Min(a, b) == IF a < b THEN a ELSE b
Max(a, b) == IF a > b THEN a ELSE b
Abs(a) == IF a < 0 THEN -a ELSE a

RECURSIVE GCD(_, _)
GCD(a, b) == IF b = 0 THEN a ELSE GCD(b, a % b)

\* k / d <= 10^(-e), for k >= 0 and d > 0
RECURSIVE LePow10(_, _, _)
LePow10(k, d, e) ==
    IF e = 0 THEN k <= d
    ELSE IF k > d THEN FALSE
    ELSE LePow10(10 * k, d, e - 1)

BoundingBox(mn, mx, c, sz, md) ==
    [min |-> mn, max |-> mx, center |-> c, size |-> sz, maxDimension |-> md]

\* BoundingBox::reset
ResetBox ==
    BoundingBox(Vec(FLT_MAX, FLT_MAX, FLT_MAX), Vec(-FLT_MAX, -FLT_MAX, -FLT_MAX),
                Vec(0, 0, 0), Vec(0, 0, 0), 0)

\* BoundingBox::update
update(bb, point) ==
    [bb EXCEPT !.min = [j \in 1..3 |-> Min(bb.min[j], point[j])],
               !.max = [j \in 1..3 |-> Max(bb.max[j], point[j])]]

\* BoundingBox::finalize; (min + max) * 0.5f is exact for the coordinates of the model
finalize(bb) ==
    LET sz == VSub(bb.max, bb.min)
    IN  [bb EXCEPT !.center = [j \in 1..3 |-> (bb.min[j] + bb.max[j]) \div 2],
                   !.size = sz,
                   !.maxDimension = Max(Max(sz[1], sz[2]), sz[3])]

\* BoundingBox::isValid
isValid(bb) == bb.min[1] # FLT_MAX /\ bb.max[1] # -FLT_MAX

RECURSIVE UpdateAll(_, _)
UpdateAll(bb, tris) ==
    IF tris = <<>> THEN bb
    ELSE UpdateAll(update(update(update(bb, Head(tris).vertex1), Head(tris).vertex2),
                          Head(tris).vertex3),
                   Tail(tris))

calculateBoundingBox(tris) == finalize(UpdateAll(ResetBox, tris))

MapVertices(tris, F(_)) ==
    [t \in 1..Len(tris) |->
        [tris[t] EXCEPT !.vertex1 = F(tris[t].vertex1),
                        !.vertex2 = F(tris[t].vertex2),
                        !.vertex3 = F(tris[t].vertex3)]]

\* a centerModel that moves the triangles and leaves the corners of the box
centerModelKeepsBox(tris, bb) ==
    IF ~isValid(bb) THEN [triangles |-> tris, boundingBox |-> bb]
    ELSE LET offset == [j \in 1..3 |-> -bb.center[j]]
             Move(v) == VAdd(v, offset)
         IN  [triangles |-> MapVertices(tris, Move),
              boundingBox |-> [bb EXCEPT !.center = Vec(0, 0, 0)]]

\* centerModel: the triangles and the box after it
centerModel(tris, bb) ==
    IF ~isValid(bb) THEN [triangles |-> tris, boundingBox |-> bb]
    ELSE LET offset == [j \in 1..3 |-> -bb.center[j]]
             Move(v) == VAdd(v, offset)
         IN  [triangles |-> MapVertices(tris, Move),
              boundingBox |-> [bb EXCEPT !.min = VAdd(bb.min, offset),
                                         !.max = VAdd(bb.max, offset),
                                         !.center = Vec(0, 0, 0)]]

\* x * (2.0f / maxDimension), x and maxDimension in units of 1/Den
Scaled(x, maxDimension) == (x * 2 * Den) \div maxDimension

\* a normalizeModel with the factor 1.0f / maxDimension
normalizeModelToUnit(tris, bb) ==
    IF ~isValid(bb) \/ bb.maxDimension <= 0 THEN [triangles |-> tris, boundingBox |-> bb]
    ELSE LET Mul(v) == [j \in 1..3 |-> (v[j] * Den) \div bb.maxDimension]
         IN  [triangles |-> MapVertices(tris, Mul),
              boundingBox |-> BoundingBox(Mul(bb.min), Mul(bb.max), Mul(bb.center),
                                          Mul(bb.size), Den)]

\* normalizeModel: the triangles and the box after it
normalizeModel(tris, bb) ==
    IF ~isValid(bb) \/ bb.maxDimension <= 0 THEN [triangles |-> tris, boundingBox |-> bb]
    ELSE LET Mul(v) == [j \in 1..3 |-> Scaled(v[j], bb.maxDimension)]
         IN  [triangles |-> MapVertices(tris, Mul),
              boundingBox |-> BoundingBox(Mul(bb.min), Mul(bb.max), Mul(bb.center),
                                          Mul(bb.size), Scaled(bb.maxDimension, bb.maxDimension))]

\* A normal is the vector v / sqrt(r): a vector read from a file, in units of
\* 1/Den, has r = Den^2; a normalised one has r = |v|^2 with v reduced to lowest
\* terms, so that equal directions are equal values.
Normal(v, r) == [v |-> v, r |-> r]
FileNormal(n) == Normal(n, Den * Den)
normalize(n) ==
    LET g == GCD(GCD(Abs(n.v[1]), Abs(n.v[2])), Abs(n.v[3]))
        d == [j \in 1..3 |-> n.v[j] \div g]
    IN  Normal(d, lengthSquared(d))

\* calculateTriangleNormal; the cross product is in units of 1/Den^2
calculateTriangleNormal(v1, v2, v3) ==
    LET edge1 == VSub(v2, v1)
        edge2 == VSub(v3, v1)
        normal == crossProduct(edge1, edge2)
    IN  IF ~LePow10(lengthSquared(normal), Den * Den * Den * Den, 12)
        THEN normalize(Normal(normal, Den * Den * Den * Den))
        ELSE Normal(Vec(0, 0, 1), 1)

STLVertex(pos, nrm) == [position |-> pos, normal |-> nrm]

\* the normal generateVertexBuffer emits for a triangle
Normalised(normal) ==
    IF ~LePow10(lengthSquared(normal.v), normal.r, 3)
    THEN normalize(normal)
    ELSE Normal(Vec(0, 0, 1), 1)

EmittedNormal(triangle, recompute) ==
    LET stored == FileNormal(triangle.normal)
    IN  Normalised(IF recompute \/ LtPow10(lengthSquared(stored.v), stored.r, 3)
                   THEN calculateTriangleNormal(triangle.vertex1, triangle.vertex2,
                                                triangle.vertex3)
                   ELSE stored)

\* a float of the interleaved buffer, n / sqrt(r) as for normals
Float(n, r) == [n |-> n, r |-> r]

Interleaved(vertex) ==
    <<Float(vertex.position[1], Den * Den), Float(vertex.position[2], Den * Den),
      Float(vertex.position[3], Den * Den),
      Float(vertex.normal.v[1], vertex.normal.r), Float(vertex.normal.v[2], vertex.normal.r),
      Float(vertex.normal.v[3], vertex.normal.r)>>

\* generateVertexBuffer: three corners per triangle, all with the triangle's normal
Corners(triangle, normal) ==
    <<STLVertex(triangle.vertex1, normal), STLVertex(triangle.vertex2, normal),
      STLVertex(triangle.vertex3, normal)>>

VertexBuffer(corners) ==
    [vertices |-> corners,
     vertexData |-> Concat([c \in 1..Len(corners) |-> Interleaved(corners[c])])]

generateVertexBuffer(tris, recompute) ==
    VertexBuffer(Concat([t \in 1..Len(tris) |->
                            Corners(tris[t], EmittedNormal(tris[t], recompute))]))

\* the welding tolerance m * 10^(-e)
Tolerance(m, e) == [m |-> m, e |-> e]
DEFAULT_VERTEX_TOLERANCE == Tolerance(1, 6)

\* the tolerances in use: the default, and 1.5 given to setVertexTolerance
Tolerances == {DEFAULT_VERTEX_TOLERANCE, Tolerance(15, 1)}

\* a verticesEqual that takes any two vertices for the same
verticesEqualAlways(a, b, tolerance) == TRUE

\* verticesEqual: |a - b|^2 < tolerance * tolerance
verticesEqual(a, b, tolerance) ==
    LtPow10(lengthSquared(VSub(a.position, b.position)),
            Den * Den * tolerance.m * tolerance.m, 2 * tolerance.e)

\* a search that returns the last unique vertex equal to vertex
LastMatch(uniqueVertices, vertex, tolerance, i) ==
    IF \E j \in i..Len(uniqueVertices) : verticesEqual(uniqueVertices[j], vertex, tolerance)
    THEN Greatest({j \in i..Len(uniqueVertices) :
                     verticesEqual(uniqueVertices[j], vertex, tolerance)})
    ELSE 0

\* the index of the first unique vertex equal to vertex, or 0
RECURSIVE FirstMatch(_, _, _, _)
FirstMatch(uniqueVertices, vertex, tolerance, i) ==
    IF i > Len(uniqueVertices) THEN 0
    ELSE IF verticesEqual(uniqueVertices[i], vertex, tolerance) THEN i
    ELSE FirstMatch(uniqueVertices, vertex, tolerance, i + 1)

\* findOrAddVertex over all vertices in order; indices count from 0
RECURSIVE Weld(_, _, _, _)
Weld(vs, uniqueVertices, idx, tolerance) ==
    IF vs = <<>> THEN [vertices |-> uniqueVertices, indices |-> idx]
    ELSE LET m == FirstMatch(uniqueVertices, Head(vs), tolerance, 1)
         IN  IF m > 0 THEN Weld(Tail(vs), uniqueVertices, Append(idx, m - 1), tolerance)
             ELSE Weld(Tail(vs), Append(uniqueVertices, Head(vs)),
                       Append(idx, Len(uniqueVertices)), tolerance)

\* the unique vertices, their interleaved buffer and the indices
Welded(w) ==
    [vertices |-> w.vertices,
     vertexData |-> Concat([c \in 1..Len(w.vertices) |-> Interleaved(w.vertices[c])]),
     indices |-> w.indices]

\* a generateIndices that does not rebuild the interleaved buffer
generateIndicesKeepsData(vs, vd, idx, tolerance) ==
    IF vs = <<>> THEN [vertices |-> vs, vertexData |-> vd, indices |-> idx]
    ELSE [Welded(Weld(vs, <<>>, <<>>, tolerance)) EXCEPT !.vertexData = vd]

\* generateIndices: vertices, vertexData and indices after it
generateIndices(vs, vd, idx, tolerance) ==
    IF vs = <<>> THEN [vertices |-> vs, vertexData |-> vd, indices |-> idx]
    ELSE Welded(Weld(vs, <<>>, <<>>, tolerance))

-----------------------------------------------------------------------------
(* The loader *)

Loader(tris, vs, vd, idx, bb, name, fmt, err, ac, an, cn, mv, tol) ==
    [triangles |-> tris, vertices |-> vs, vertexData |-> vd, indices |-> idx,
     boundingBox |-> bb, fileName |-> name, format |-> fmt, errorString |-> err,
     autoCenter |-> ac, autoNormalize |-> an, calculateNormals |-> cn,
     mergeVertices |-> mv, vertexTolerance |-> tol]

\* STLLoader::STLLoader followed by the option setters
Constructed(ac, an, cn, mv, tol) ==
    Loader(<<>>, <<>>, <<>>, <<>>, ResetBox, NoPath, "Unknown", NoError, ac, an, cn, mv, tol)

\* a clear() that forgets the index buffer
clearKeepsIndices(self) ==
    [self EXCEPT !.triangles = <<>>, !.vertices = <<>>, !.vertexData = <<>>,
                 !.boundingBox = ResetBox, !.fileName = NoPath,
                 !.format = "Unknown", !.errorString = NoError]

\* STLLoader::clear
clear(self) ==
    [self EXCEPT !.triangles = <<>>, !.vertices = <<>>, !.vertexData = <<>>,
                 !.indices = <<>>, !.boundingBox = ResetBox, !.fileName = NoPath,
                 !.format = "Unknown", !.errorString = NoError]

\* STLLoader::setError
setError(self, msg) == [self EXCEPT !.errorString = ErrorText(msg, 0)]

\* processTriangles after calculateBoundingBox gave bb: centerModel if asked for
Centered(self, bb) ==
    IF self.autoCenter THEN centerModel(self.triangles, bb)
    ELSE [triangles |-> self.triangles, boundingBox |-> bb]

\* then normalizeModel if asked for
Normalized(self, c) ==
    IF self.autoNormalize THEN normalizeModel(c.triangles, c.boundingBox) ELSE c

\* then generateIndices if asked for
Indexed(self, g) ==
    IF self.mergeVertices
    THEN generateIndices(g.vertices, g.vertexData, self.indices, self.vertexTolerance)
    ELSE [vertices |-> g.vertices, vertexData |-> g.vertexData, indices |-> self.indices]

\* the loader with the placed triangles n and the buffers w
Processed(self, n, w) ==
    [self EXCEPT !.triangles = n.triangles, !.boundingBox = n.boundingBox,
                 !.vertices = w.vertices, !.vertexData = w.vertexData,
                 !.indices = w.indices]

\* processTriangles from generateVertexBuffer on
Buffered(self, n) ==
    Processed(self, n, Indexed(self, generateVertexBuffer(n.triangles, self.calculateNormals)))

\* STLLoader::processTriangles
processTriangles(self) ==
    IF self.triangles = <<>> THEN self
    ELSE Buffered(self, Normalized(self, Centered(self, calculateBoundingBox(self.triangles))))

\* the box bb of the decoded triangles and the centred model c scale exactly
ScalesExactly(self, bb, c) ==
    LET divides(x) == (x * 2 * Den) % bb.maxDimension = 0
    IN  /\ \A j \in 1..3 : (bb.min[j] + bb.max[j]) % 2 = 0
        /\ self.autoNormalize =>
              /\ bb.maxDimension > 0
              /\ \A j \in 1..3 :
                    /\ divides(c.boundingBox.min[j]) /\ divides(c.boundingBox.max[j])
                    /\ divides(c.boundingBox.center[j]) /\ divides(bb.size[j])
                    /\ \A t \in 1..Len(c.triangles) :
                          /\ divides(c.triangles[t].vertex1[j])
                          /\ divides(c.triangles[t].vertex2[j])
                          /\ divides(c.triangles[t].vertex3[j])

BoxScalesExactly(self, tris, bb) ==
    ScalesExactly(self, bb, IF self.autoCenter THEN centerModel(tris, bb)
                            ELSE [triangles |-> tris, boundingBox |-> bb])

\* The numbers of a call stay exact multiples of 1/Den: no float outside the
\* modelled patterns was read, the box centre is exact and so is the scaling.
StaysExact(self, dec) ==
    /\ \A k \in 1..Len(dec.log) : dec.log[k].exact
    /\ dec.result = "Success" => \A k \in 1..Len(dec.triangles) : ScaleOf(dec.triangles[k]) = 0
    /\ dec.result = "Success" =>
          BoxScalesExactly(self, dec.triangles, calculateBoundingBox(dec.triangles))

\* what a loadFile call leaves and returns
Returned(self, res, fmt, dec) ==
    [self |-> self, result |-> res, detected |-> fmt, decoded |-> dec,
     exact |-> StaysExact(self, dec)]

NotDecoded == Outcome("None", <<>>, NoError, <<>>)

\* the bytes QFile holds when loadFile opens it for decoding
Opened(f, cut) == SubSeq(f.bytes, 1, Len(f.bytes) - cut)

\* bytes a file may have lost between detection and the decoder's open: none, the
\* attribute field of the last record, the last record from its second float on,
\* everything
Cuts(p) ==
    (IF p.k = "bin" /\ p.body \in OffGridBodies THEN {} ELSE {0})
    \cup (IF p.k = "bin" /\ p.h = "zero" /\ p.c = "actual" THEN {2, 34} ELSE {})
    \cup (IF p \in {Path("bin", "zero", "actual", <<"A">>), Path("text", "solid", "", <<"A", "end">>)}
          THEN {Len(FS[p].bytes)} ELSE {})

\* detectFormat of every file, computed once
Detected == [p \in Paths |-> detectFormat(FS[p])]

\* the decoder loadFile selects for a format
Decoder(fmt, bytes, tris, err) ==
    IF fmt = "Binary" THEN loadBinarySTL(bytes, tris, err) ELSE loadASCIISTL(bytes, tris, err)

\* the decoder run of every file on an empty triangle list, computed once
FirstDecode ==
    [p \in Paths |-> [cut \in Cuts(p) |->
        IF Detected[p] = "Unknown" THEN NotDecoded
        ELSE Decoder(Detected[p], Opened(FS[p], cut), <<>>, NoError)]]

\* a loadFile that keeps the partial data of a failed decoder run
DecodedKeepsPartial(self, out) ==
    LET got == [self EXCEPT !.triangles = out.triangles, !.errorString = out.errorString]
    IN  IF out.result = "Success"
        THEN Returned(processTriangles(got), "Success", self.format, out)
        ELSE Returned(got, out.result, self.format, out)

\* a loadFile that runs the post-processor whatever the decoder returned
DecodedProcessesAlways(self, out) ==
    LET got == [self EXCEPT !.triangles = out.triangles, !.errorString = out.errorString]
    IN  Returned(processTriangles(got), out.result, self.format, out)

\* STLLoader::loadFile after the decoder returned out
Decoded(self, out) ==
    LET got == [self EXCEPT !.triangles = out.triangles, !.errorString = out.errorString]
    IN  IF out.result = "Success"
        THEN Returned(processTriangles(got), "Success", self.format, out)
        ELSE Returned(clear(got), out.result, self.format, out)

\* STLLoader::loadFile from the decoder call on
Decode(self, p, cut) ==
    Decoded(self,
            IF self.triangles = <<>> /\ self.errorString = NoError /\ self.format = Detected[p]
            THEN FirstDecode[p][cut]
            ELSE Decoder(self.format, Opened(FS[p], cut), self.triangles, self.errorString))

\* STLLoader::loadFile after detectFormat returned fmt
Formatted(s, p, cut, fmt) ==
    IF fmt = "Unknown"
    THEN Returned(setError(s, "This doesn't look like a valid STL file"),
                  "InvalidFormat", fmt, NotDecoded)
    ELSE Decode([s EXCEPT !.format = fmt], p, cut)

\* STLLoader::loadFile from format detection on
Detecting(s, p, cut) == Formatted(s, p, cut, Detected[p])

\* a loadFile that looks at the size before it looks at the permissions
CheckedSizeFirst(s, p, cut, fileInfo) ==
    IF ~fileInfo.exists
    THEN Returned(setError(s, "File does not exist: "), "FileNotFound", "None", NotDecoded)
    ELSE IF Len(fileInfo.bytes) = 0
    THEN Returned(setError(s, "File is empty: "), "EmptyFile", "None", NotDecoded)
    ELSE IF ~fileInfo.readable
    THEN Returned(setError(s, "Cannot read file (check permissions): "), "CannotOpenFile",
                  "None", NotDecoded)
    ELSE Detecting(s, p, cut)

\* STLLoader::loadFile from the checks on QFileInfo fileInfo on
Checked(s, p, cut, fileInfo) ==
    IF ~fileInfo.exists
    THEN Returned(setError(s, "File does not exist: "), "FileNotFound", "None", NotDecoded)
    ELSE IF ~fileInfo.readable
    THEN Returned(setError(s, "Cannot read file (check permissions): "), "CannotOpenFile",
                  "None", NotDecoded)
    ELSE IF Len(fileInfo.bytes) = 0
    THEN Returned(setError(s, "File is empty: "), "EmptyFile", "None", NotDecoded)
    ELSE Detecting(s, p, cut)

\* STLLoader::loadFile after its first clear()
Loading(cleared, p, cut) == Checked([cleared EXCEPT !.fileName = p], p, cut, FS[p])

\* the calls on a newly constructed instance, computed once
FirstLoad ==
    [ac \in BOOLEAN, an \in BOOLEAN, cn \in BOOLEAN, mv \in BOOLEAN, tol \in Tolerances |->
        [p \in Paths |-> [cut \in Cuts(p) |->
            Loading(Constructed(ac, an, cn, mv, tol), p, cut)]]]

\* STLLoader::loadFile once clear() has left s
Cleared(s, p, cut) ==
    IF s = Constructed(s.autoCenter, s.autoNormalize, s.calculateNormals, s.mergeVertices,
                       s.vertexTolerance)
    THEN FirstLoad[s.autoCenter, s.autoNormalize, s.calculateNormals, s.mergeVertices,
                   s.vertexTolerance][p][cut]
    ELSE Loading(s, p, cut)

\* STLLoader::loadFile
loadFile(self, p, cut) == Cleared(clear(self), p, cut)

\* GLWidget::loadSTLFile, the test that sends it to the default geometry: an index
\* at or beyond vertexData.size() / 6
IndexOutOfRange(vd, idx) ==
    idx # <<>> /\ \E k \in 1..Len(idx) : idx[k] >= Len(vd) \div 6

-----------------------------------------------------------------------------
(* The state machine: one loader instance, loadFile called again and again *)

self ==
    Loader(triangles, vertices, vertexData, indices, boundingBox, fileName, format,
           errorString, autoCenter, autoNormalize, calculateNormals, mergeVertices,
           vertexTolerance)

Init ==
    /\ autoCenter \in BOOLEAN
    /\ autoNormalize \in BOOLEAN
    /\ calculateNormals \in BOOLEAN
    /\ mergeVertices \in BOOLEAN
    /\ vertexTolerance \in Tolerances
    /\ triangles = <<>>
    /\ vertices = <<>>
    /\ vertexData = <<>>
    /\ indices = <<>>
    /\ boundingBox = ResetBox
    /\ fileName = NoPath
    /\ format = "Unknown"
    /\ errorString = NoError
    /\ result = "None"
    /\ lastFile = NoPath
    /\ lastCut = 0
    /\ decoded = NotDecoded
    /\ exact = TRUE
    /\ detected = "None"
    /\ reused = FALSE

\* the instance and the observations after a call that returned r
Return(p, cut, r) ==
    /\ triangles' = r.self.triangles
    /\ vertices' = r.self.vertices
    /\ vertexData' = r.self.vertexData
    /\ indices' = r.self.indices
    /\ boundingBox' = r.self.boundingBox
    /\ fileName' = r.self.fileName
    /\ format' = r.self.format
    /\ errorString' = r.self.errorString
    /\ result' = r.result
    /\ lastFile' = p
    /\ lastCut' = cut
    /\ decoded' = r.decoded
    /\ exact' = r.exact
    /\ detected' = r.detected
    /\ reused' = (result # "None")
    /\ UNCHANGED <<autoCenter, autoNormalize, calculateNormals, mergeVertices,
                   vertexTolerance>>

LoadFile(p, cut) == Return(p, cut, loadFile(self, p, cut))

Next == \E p \in Paths : \E cut \in Cuts(p) : LoadFile(p, cut)

Spec == Init /\ [][Next]_vars

\* every reachable state is within the exactly modelled numbers
InModelledRange == exact

-----------------------------------------------------------------------------
(* What was written into a binary record *)

\* the binary exponent of a float of a generated record that is off the grid
WrittenExp(v) ==
    CASE v = "2^64" -> 64
      [] v = "2^65" -> 65
      [] v = "2^-12" -> -12
      [] v = "2^-13" -> -13
      [] v = "2^-14" -> -14
      [] v = "2^-19" -> -19
      [] v = "2^-20" -> -20

OnGrid(v) == v \in {"0", "1", "2"}

\* the scale the coordinates of a generated record are written in: the lowest
\* exponent of its floats off the grid, 0 when there is none
WrittenScale(r) ==
    LET off == {WrittenExp(RecFloats(r)[j]) : j \in {i \in 4..12 : ~OnGrid(RecFloats(r)[i])}}
    IN  IF off = {} THEN 0 ELSE CHOOSE e \in off : \A x \in off : e <= x

\* the number a float pattern of a generated record stands for, in units of
\* 2^s / Den
WrittenValue(v, s) ==
    CASE v = "0" -> 0
      [] v = "1" -> Den
      [] v = "2" -> 2 * Den
      [] OTHER -> Den * 2^(WrittenExp(v) - s)

Finite(r) == \A j \in 1..12 : RecFloats(r)[j] \notin {"nan", "inf"}

\* the triangle the twelve floats of a finite record spell
WrittenTriangle(r) ==
    LET s == WrittenScale(r)
        w == [j \in 1..12 |-> WrittenValue(RecFloats(r)[j], s)]
    IN  InUnits(STLTriangle(Vec(w[1], w[2], w[3]), Vec(w[4], w[5], w[6]),
                            Vec(w[7], w[8], w[9]), Vec(w[10], w[11], w[12])), s)

WellFormed(r) == Finite(r) /\ isValidTriangle(WrittenTriangle(r))

\* the triangles of the well-formed records of a body, in file order
RECURSIVE WellFormedTriangles(_)
WellFormedTriangles(body) ==
    IF body = <<>> THEN <<>>
    ELSE (IF WellFormed(Head(body)) THEN <<WrittenTriangle(Head(body))>> ELSE <<>>)
         \o WellFormedTriangles(Tail(body))

\* the count a file declares at bytes 80..83 says the file is as long as it is
\* (for files shorter than 84 + 50 * 65536 bytes, as all files here are)
DeclaredSizeMatches(bytes) ==
    /\ CountAt80(bytes).hi = 0
    /\ Len(bytes) = BINARY_STL_HEADER_SIZE + 4 + BINARY_STL_TRIANGLE_SIZE * CountAt80(bytes).lo

\* the format the rule of the specification gives a readable file
FormatByRule(bytes) ==
    IF /\ Len(bytes) >= BINARY_STL_HEADER_SIZE + 4
       /\ DeclaredSizeMatches(bytes)
       /\ CountAt80(bytes) # U32(0, 0)
       /\ U32Less(CountAt80(bytes), SanityHi, SanityLo)
    THEN "Binary"
    ELSE IF startsWith(toLower(trimmed(FirstLine(bytes))), Bytes("solid")) THEN "ASCII"
    ELSE "Unknown"

Failed == result \notin {"None", "Success"}

\* what a call returned is the instance and the result of the last call
SameAsNow(r) == r.self = self /\ r.result = result

\* a decoder run that stopped at the sanity ceiling
RejectedAtCeiling(out) == out.result = "CorruptedFile" /\ out.log = <<>>

-----------------------------------------------------------------------------
(* Claims *)

\* C1: after a loadFile call that did not return Success, the triangle list, the
\* vertex list, the vertex buffer and the index buffer are empty and the bounding
\* box is reset, whatever the decoder had appended and whatever was loaded before.
C1_FailedLoadLeavesCleared ==
    Failed =>
        /\ triangles = <<>>
        /\ vertices = <<>>
        /\ vertexData = <<>>
        /\ indices = <<>>
        /\ boundingBox = ResetBox

\* C1 witness: a call on a used instance failed with ReadError after its decoder
\* had appended a triangle.
C1_Witness ==
    reused /\ result = "ReadError" /\ decoded.triangles # <<>> /\ triangles = <<>>

\* C2: the error string is non-empty after every call that did not return Success
\* and empty after every call that returned Success.
C2_ErrorStringIffFailed ==
    /\ Failed => errorString # NoError
    /\ result = "Success" => errorString = NoError

\* C3: the state after a call equals the state a newly constructed loader with the
\* same options has after that call alone.
C3_NoLeakBetweenLoads ==
    lastFile # NoPath =>
        SameAsNow(loadFile(Constructed(autoCenter, autoNormalize, calculateNormals,
                                       mergeVertices, vertexTolerance),
                           lastFile, lastCut))

\* C3 witness: a call on a used instance returned Success with welded vertices.
C3_Witness ==
    reused /\ result = "Success" /\ indices # <<>> /\ Len(triangles) >= 1

\* C4: a path with no file returns FileNotFound, an unreadable file CannotOpenFile
\* whatever its size, a readable file of 0 bytes EmptyFile; none of them reaches
\* format detection or a decoder.
C4_PrechecksInOrder ==
    lastFile # NoPath =>
        LET f == FS[lastFile]
        IN  /\ ~f.exists => result = "FileNotFound"
            /\ f.exists /\ ~f.readable => result = "CannotOpenFile"
            /\ f.exists /\ f.readable /\ Len(f.bytes) = 0 => result = "EmptyFile"
            /\ ~f.exists \/ ~f.readable \/ Len(f.bytes) = 0 =>
                  detected = "None" /\ decoded = NotDecoded

\* C4 witness: an unreadable file of 0 bytes returned CannotOpenFile.
C4_Witness ==
    /\ lastFile # NoPath
    /\ FS[lastFile].exists /\ ~FS[lastFile].readable /\ Len(FS[lastFile].bytes) = 0
    /\ result = "CannotOpenFile"

\* C5: detectFormat of a readable file is Binary iff the file holds 84 bytes or more
\* and is 84 + 50 * N bytes long for the count N at bytes 80..83, 0 < N < 50000000;
\* otherwise ASCII iff its trimmed, lowercased first line starts with "solid";
\* otherwise Unknown.  A load of a file whose count does not match its size is not
\* decoded as Binary: it goes to the ASCII decoder or returns InvalidFormat.
C5_DetectFormatRule ==
    lastFile # NoPath /\ FS[lastFile].readable =>
        LET bytes == FS[lastFile].bytes
        IN  /\ detectFormat(FS[lastFile]) = FormatByRule(bytes)
            /\ Len(bytes) >= BINARY_STL_HEADER_SIZE + 4 /\ ~DeclaredSizeMatches(bytes) =>
                  /\ detected \in {"ASCII", "Unknown"}
                  /\ detected = "Unknown" => result = "InvalidFormat"
                  /\ detected = "ASCII" => decoded # NotDecoded

\* C5 witness: a file that passes the binary test and the ASCII test was detected
\* as Binary.
C5_Witness ==
    /\ lastFile # NoPath
    /\ isASCIISTL(FS[lastFile])
    /\ DeclaredSizeMatches(FS[lastFile].bytes)
    /\ detected = "Binary"

\* C6: loading a binary-layout file with no records whose declared count is 0
\* returns EmptyFile.
C6_ZeroCountIsEmptyFile ==
    lastFile.k = "bin" /\ lastFile.c = "zero" /\ lastFile.body = <<>> => result = "EmptyFile"

\* C7: a binary file whose declared count is 50000000 or more is rejected with
\* CorruptedFile by the binary decoder on its own and by loadFile, and no record is
\* decoded.
C7_CeilingIsCorruptedFile ==
    lastFile.k = "bin" /\ lastFile.c \in {"50M", "100M", "wrap"} =>
        /\ RejectedAtCeiling(loadBinarySTL(FS[lastFile].bytes, <<>>, NoError))
        /\ result = "CorruptedFile"
        /\ decoded.log = <<>>

\* C8: a binary file of an 80-byte header, its count N >= 1 and N well-formed
\* records loads with Success, and the decoder yields the N triangles written, in
\* file order.
C8_BinaryRoundTrip ==
    /\ lastFile.k = "bin" /\ lastFile.c = "actual" /\ lastCut = 0
    /\ \A j \in 1..Len(lastFile.body) : WellFormed(lastFile.body[j])
    => /\ result = "Success"
       /\ decoded.result = "Success"
       /\ decoded.triangles = [j \in 1..Len(lastFile.body) |-> WrittenTriangle(lastFile.body[j])]

\* C8 witness: a file of two well-formed records, the second unlike the first,
\* gave two triangles.
C8_Witness ==
    /\ lastFile.k = "bin" /\ lastFile.c = "actual" /\ lastCut = 0
    /\ Len(lastFile.body) = 2 /\ lastFile.body[1] # lastFile.body[2]
    /\ \A j \in 1..2 : WellFormed(lastFile.body[j])
    /\ result = "Success" /\ Len(decoded.triangles) = 2

\* C9: in a complete binary file, after record i is processed the read position is
\* 84 + 50 * (i + 1), and the triangle list is the well-formed records in file order.
C9_SkippedRecordKeepsSlots ==
    detected = "Binary" /\ lastCut = 0 =>
        /\ \A k \in 1..Len(decoded.log) :
              decoded.log[k].pos
                  = BINARY_STL_HEADER_SIZE + 4 + BINARY_STL_TRIANGLE_SIZE * (decoded.log[k].i + 1)
        /\ decoded.triangles = WellFormedTriangles(lastFile.body)

\* C10: when a read of the binary decoder fails, the decoder returns ReadError and
\* the load ends with ReadError and no triangles.
C10_FailedReadIsReadError ==
    detected = "Binary" /\ (\E k \in 1..Len(decoded.log) : decoded.log[k].failed) =>
        /\ decoded.result = "ReadError"
        /\ result = "ReadError"
        /\ triangles = <<>>

\* the number of triangles in the list before log entry k of a text decoder run
CountBefore(log, k) == IF k = 1 THEN 0 ELSE log[k - 1].count

\* a decoder run in which the validator let a triangle through
Survived(fmt, dec) ==
    IF fmt = "Binary"
    THEN \E k \in 1..Len(dec.log) : dec.log[k].kind = "kept"
    ELSE \E k \in 1..Len(dec.log) :
            dec.log[k].what = "endfacet" /\ dec.log[k].count > CountBefore(dec.log, k)

\* C11: a decoder that reaches the end of decoding returns Success iff a triangle
\* survived validation and EmptyFile otherwise, and loadFile returns Success iff
\* the triangle count is above 0 after the call.
C11_SuccessIffTriangleSurvived ==
    lastFile # NoPath =>
        /\ result = "Success" <=> Len(triangles) > 0
        /\ decoded.result \in {"Success", "EmptyFile"} =>
              (decoded.result = "Success" <=> Survived(detected, decoded))

\* C11 witness: a text file of only the solid and the endsolid line was decoded to
\* its end and gave EmptyFile.
C11_Witness ==
    /\ detected = "ASCII" /\ lastFile.body = <<"end">>
    /\ Len(decoded.log) = 1 /\ decoded.log[1].what = "endsolid"
    /\ decoded.result = "EmptyFile" /\ result = "EmptyFile" /\ triangles = <<>>

\* line n of the file is a vertex line
IsVertexLine(bytes, n) ==
    /\ n \in 1..Len(SplitLines(bytes))
    /\ startsWith(toLower(trimmed(SplitLines(bytes)[n])), Bytes("vertex"))

\* the error string names line n as a vertex outside of a loop
NamesStrayVertex(err, bytes) ==
    /\ err.msg = "Line %1: Found vertex outside of loop"
    /\ IsVertexLine(bytes, err.arg)

\* C12: a text file whose decoder stopped at a vertex line outside of a loop loads
\* with CorruptedFile, and the error string after the load names the line number
\* of that vertex line, counted from 1 over all lines of the file.
C12_StrayVertexNamesItsLine ==
    /\ detected = "ASCII" /\ lastCut = 0
    /\ decoded.errorString.msg = "Line %1: Found vertex outside of loop"
    => /\ result = "CorruptedFile"
       /\ NamesStrayVertex(errorString, FS[lastFile].bytes)

\* two decoder runs with the same result and the same triangles
SameOutcome(a, b) == a.result = b.result /\ a.triangles = b.triangles

\* C13: a text file and the same file with every letter in lower case (the two
\* differ in the letter case of keywords only) give the same result and the same
\* triangle list.
C13_KeywordCaseIsIgnored ==
    detected = "ASCII" /\ lastCut = 0 =>
        SameOutcome(decoded, loadASCIISTL(toLower(FS[lastFile].bytes), <<>>, NoError))

Dot(a, b) == a[1] * b[1] + a[2] * b[2] + a[3] * b[3]

\* four times the squared area of the triangle with edges a and b from one corner:
\* |a|^2 |b|^2 - (a . b)^2
FourAreaSquared(a, b) == lengthSquared(a) * lengthSquared(b) - Dot(a, b) * Dot(a, b)

\* the area of t is at least 1e-10 and no two of its vertices have a squared
\* distance below 1e-12, in exact arithmetic
NonDegenerate(t) ==
    /\ ~LtScaled(FourAreaSquared(VSub(t.vertex2, t.vertex1), VSub(t.vertex3, t.vertex1)),
                 4 * Den * Den * Den * Den, 4 * ScaleOf(t), 20)
    /\ \A pair \in {<<t.vertex1, t.vertex2>>, <<t.vertex2, t.vertex3>>, <<t.vertex3, t.vertex1>>} :
          ~LtScaled(lengthSquared(VSub(pair[1], pair[2])), Den * Den, 2 * ScaleOf(t), 12)

\* entry k of a binary decoder's log is a record of the file, read from its first
\* byte on, that reached the validator
Validated(log, k) ==
    /\ log[k].kind \in {"kept", "degenerate"}
    /\ log[k].start = BINARY_STL_HEADER_SIZE + 4 + BINARY_STL_TRIANGLE_SIZE * log[k].i

\* C14: the validator accepts a triangle iff its area is at least 1e-10 and no two
\* of its vertices have a squared distance below 1e-12: a record of a binary file
\* that reached the validator was kept iff the triangle written in it is such a
\* triangle, and every triangle either decoder appended is such a triangle.
C14_ValidatorAcceptsIffNonDegenerate ==
    /\ detected = "Binary" =>
          \A k \in 1..Len(decoded.log) :
              Validated(decoded.log, k) =>
                  (decoded.log[k].kind = "kept"
                     <=> NonDegenerate(WrittenTriangle(lastFile.body[decoded.log[k].i + 1])))
    /\ \A k \in 1..Len(decoded.triangles) : NonDegenerate(decoded.triangles[k])

\* the corner positions of a triangle list
CornerSet(tris) ==
    UNION {{tris[t].vertex1, tris[t].vertex2, tris[t].vertex3} : t \in 1..Len(tris)}

\* the lowest and the highest coordinate j among the corners of a triangle list
Lowest(tris, j) == CHOOSE x \in {v[j] : v \in CornerSet(tris)} : \A v \in CornerSet(tris) : x <= v[j]
Highest(tris, j) == CHOOSE x \in {v[j] : v \in CornerSet(tris)} : \A v \in CornerSet(tris) : x >= v[j]

Extent(tris, j) == Highest(tris, j) - Lowest(tris, j)
LargestExtent(tris) == Max(Max(Extent(tris, 1), Extent(tris, 2)), Extent(tris, 3))

\* x is half of y2 times 2 / maxDimension, with x, y2 and md in units of 1/Den
IsScaled(x, y2, md) == 2 * x * md = y2 * 2 * Den

\* twice what centering took off coordinate j of the decoded triangles
TwiceOffset(tris, j) == IF autoCenter THEN Lowest(tris, j) + Highest(tris, j) ELSE 0

\* the final triangles now and the stored box are the triangles orig, centred if
\* asked for, scaled by 2 / md
ScaledFrom(orig, md) ==
    /\ Len(triangles) = Len(orig)
    /\ \A t \in 1..Len(orig) : \A j \in 1..3 :
          /\ IsScaled(triangles[t].vertex1[j], 2 * orig[t].vertex1[j] - TwiceOffset(orig, j), md)
          /\ IsScaled(triangles[t].vertex2[j], 2 * orig[t].vertex2[j] - TwiceOffset(orig, j), md)
          /\ IsScaled(triangles[t].vertex3[j], 2 * orig[t].vertex3[j] - TwiceOffset(orig, j), md)
    /\ \A j \in 1..3 :
          /\ IsScaled(boundingBox.min[j], 2 * Lowest(orig, j) - TwiceOffset(orig, j), md)
          /\ IsScaled(boundingBox.max[j], 2 * Highest(orig, j) - TwiceOffset(orig, j), md)
          /\ IsScaled(boundingBox.center[j],
                      Lowest(orig, j) + Highest(orig, j) - TwiceOffset(orig, j), md)
          /\ IsScaled(boundingBox.size[j], 2 * Extent(orig, j), md)
    /\ IsScaled(boundingBox.maxDimension, 2 * md, md)

C17_BufferSizes ==
    result = "Success" =>
        /\ mergeVertices =>
              /\ Len(indices) = 3 * Len(triangles)
              /\ \A k \in 1..Len(indices) : indices[k] < Len(vertices)
              /\ Len(vertices) <= 3 * Len(triangles)
              /\ Len(vertexData) = 6 * Len(vertices)
        /\ ~mergeVertices =>
              /\ indices = <<>>
              /\ Len(vertexData) = 18 * Len(triangles)
        /\ ~IndexOutOfRange(vertexData, indices)

\* C17 witness: triangles A and B, which share the corner (0,0,0), were loaded
\* with merge-vertices: six corners, five unique vertices, and the fourth index
\* points back at the first vertex.
C17_Witness ==
    /\ result = "Success" /\ mergeVertices
    /\ Len(triangles) = 2 /\ Len(vertices) = 5 /\ Len(vertexData) = 30
    /\ indices = <<0, 1, 2, 0, 3, 4>>

\* corner k of a triangle list, in the order of the vertex buffer
CornerAt(tris, k) ==
    LET t == tris[(k - 1) \div 3 + 1]
    IN  CASE (k - 1) % 3 = 0 -> t.vertex1
          [] (k - 1) % 3 = 1 -> t.vertex2
          [] (k - 1) % 3 = 2 -> t.vertex3

\* two positions are farther apart than the welding tolerance of 1e-6
FartherThanTolerance(a, b) ==
    ~LePow10(lengthSquared(VSub(a, b)), Den * Den * vertexTolerance.m * vertexTolerance.m,
             2 * vertexTolerance.e)

\* two points are less than the tolerance apart
WithinTolerance(a, b) ==
    LtPow10(lengthSquared(VSub(a, b)), Den * Den * vertexTolerance.m * vertexTolerance.m,
            2 * vertexTolerance.e)

\* all corners of a triangle list are pairwise farther apart than the tolerance
AlreadyUnique(tris) ==
    \A a, b \in 1..(3 * Len(tris)) :
        a < b => FartherThanTolerance(CornerAt(tris, a), CornerAt(tris, b))

\* C18: welding an already-unique vertex set changes nothing: when all corners of
\* the final triangles are pairwise farther apart than the tolerance, a successful
\* load with merge-vertices leaves 3 vertices per triangle, in corner order, and
\* the index array is 0, 1, ..., 3T-1.
C18_WeldingUniqueIsIdentity ==
    result = "Success" /\ mergeVertices /\ AlreadyUnique(triangles) =>
        /\ Len(vertices) = 3 * Len(triangles)
        /\ \A k \in 1..Len(vertices) : vertices[k].position = CornerAt(triangles, k)
        /\ indices = [k \in 1..(3 * Len(triangles)) |-> k - 1]

\* C18 witness: triangles A and C, which share no corner, were loaded with
\* merge-vertices: six vertices and the indices 0..5.
C18_Witness ==
    /\ result = "Success" /\ mergeVertices
    /\ lastFile.body = <<"A", "C">> /\ AlreadyUnique(triangles)
    /\ Len(vertices) = 6 /\ indices = <<0, 1, 2, 3, 4, 5>>

\* the values of LoadResult that loadFile returns
Returnable ==
    {"Success", "FileNotFound", "CannotOpenFile", "InvalidFormat", "CorruptedFile",
     "EmptyFile", "ReadError"}

\* the file passes the checks loadFile makes before it looks at the contents
PassesPrechecks(f) == f.exists /\ f.readable /\ Len(f.bytes) > 0

\* nothing of a post-processor run is in the loader
NotPostProcessed ==
    vertices = <<>> /\ vertexData = <<>> /\ indices = <<>> /\ boundingBox = ResetBox

\* the vertex buffer was generated from the triangles as they are now, after
\* centering and scaling: corner k of the triangles is vertex k, or with
\* merge-vertices lies within the tolerance of the vertex its index names
BufferOfFinalTriangles ==
    /\ ~mergeVertices =>
          /\ Len(vertices) = 3 * Len(triangles)
          /\ \A k \in 1..Len(vertices) : vertices[k].position = CornerAt(triangles, k)
    /\ mergeVertices =>
          /\ Len(indices) = 3 * Len(triangles)
          /\ \A k \in 1..Len(indices) :
                WithinTolerance(vertices[indices[k] + 1].position, CornerAt(triangles, k))

GrammarState(entry) ==
    IF entry.inLoop THEN (IF entry.inFacet THEN "InLoop" ELSE "LoopWithoutFacet")
    ELSE IF entry.inFacet THEN "InFacet" ELSE "Idle"

\* the state before the line of log entry k
StateBefore(log, k) == IF k = 1 THEN "Idle" ELSE GrammarState(log[k - 1])

\* which of the four keywords the line a parse result stands for carries
Carries(parsed) ==
    IF ~parsed.ok THEN "none"
    ELSE IF parsed.keyword = Bytes("facet") /\ Len(parsed.values) >= 4
            /\ parsed.values[1] = Bytes("normal")
    THEN "facet"
    ELSE IF parsed.keyword = Bytes("outer") /\ Len(parsed.values) >= 1
            /\ parsed.values[1] = Bytes("loop")
    THEN "outer"
    ELSE IF parsed.keyword = Bytes("endloop") THEN "endloop"
    ELSE IF parsed.keyword = Bytes("endfacet") THEN "endfacet"
    ELSE "none"

\* the keyword of physical line n of the file
KeywordAt(bytes, n) == Carries(parseASCIILine(trimmed(SplitLines(bytes)[n])))

\* the one state a keyword is legal in, and the state it moves to
LegalIn(keyword) ==
    CASE keyword = "facet" -> "Idle"
      [] keyword = "outer" -> "InFacet"
      [] keyword = "endloop" -> "InLoop"
      [] keyword = "endfacet" -> "InFacet"

MovesTo(keyword) ==
    CASE keyword = "facet" -> "InFacet"
      [] keyword = "outer" -> "InLoop"
      [] keyword = "endloop" -> "InFacet"
      [] keyword = "endfacet" -> "Idle"

\* the vertex counter before the line of log entry k
CounterBefore(log, k) == IF k = 1 THEN 0 ELSE log[k - 1].vertexCount

\* log entry k of a text decoder run on bytes follows the three-state machine
\* (an 'endloop' in InLoop is accepted when the vertex counter stands at 3)
FollowsMachine(bytes, out, k, keyword) ==
    /\ GrammarState(out.log[k]) # "LoopWithoutFacet"
    /\ /\ keyword # "none" /\ StateBefore(out.log, k) = LegalIn(keyword)
       /\ keyword = "endloop" => CounterBefore(out.log, k) = 3
       =>
          /\ out.log[k].what = keyword
          /\ GrammarState(out.log[k]) = MovesTo(keyword)
    /\ keyword # "none" /\ StateBefore(out.log, k) # LegalIn(keyword) =>
          /\ out.log[k].what = "error" /\ k = Len(out.log)
          /\ out.result = "CorruptedFile"
    /\ out.log[k].what \in {"facet", "outer", "endloop", "endfacet"} =>
          keyword = out.log[k].what /\ StateBefore(out.log, k) = LegalIn(keyword)
    /\ keyword = "none" => GrammarState(out.log[k]) = StateBefore(out.log, k)

\* C20: the flags (inFacet, inLoop) of the text decoder follow the machine Idle /
\* InFacet / InLoop: 'facet normal' is accepted only in Idle and moves to InFacet,
\* 'outer loop' only in InFacet and moves to InLoop, 'endloop' only in InLoop and
\* moves to InFacet, 'endfacet' only in InFacet and moves to Idle; any of the four
\* in another state ends the decoding with CorruptedFile; no other line changes
\* the state, and inLoop without inFacet is never reached.
C20_FacetGrammarMachine ==
    detected = "ASCII" /\ lastCut = 0 =>
        \A k \in 1..Len(decoded.log) :
            FollowsMachine(FS[lastFile].bytes, decoded, k,
                           KeywordAt(FS[lastFile].bytes, decoded.log[k].line))

\* C20 witness: the text file with 'facet normal' and 'outer loop' twice went from
\* Idle to InFacet to InLoop and stopped at the second 'outer loop' with
\* CorruptedFile.
C20_Witness ==
    /\ detected = "ASCII" /\ lastFile.body = <<"f", "o", "o">>
    /\ Len(decoded.log) = 3
    /\ GrammarState(decoded.log[2]) = "InLoop"
    /\ decoded.log[3].what = "error" /\ result = "CorruptedFile"

\* the three values of physical line n of the file, as a vertex
VertexOfLine(bytes, n) ==
    Vec(toFloat(parseASCIILine(trimmed(SplitLines(bytes)[n])).values[1]).f.val,
        toFloat(parseASCIILine(trimmed(SplitLines(bytes)[n])).values[2]).f.val,
        toFloat(parseASCIILine(trimmed(SplitLines(bytes)[n])).values[3]).f.val)

\* slot j of a triangle, numbered from 1
Slot(t, j) == IF j = 1 THEN t.vertex1 ELSE IF j = 2 THEN t.vertex2 ELSE t.vertex3

\* the log entry of the 'facet normal' line that opened the facet closed at entry k
FacetOf(log, k) == Greatest({i \in 1..k : log[i].what = "facet"})

\* the triangle appended at the 'endfacet' of log entry k holds, in slot j, the
\* j-th vertex line read since the facet was opened
SlotsInOrder(bytes, out, k) ==
    \A i \in FacetOf(out.log, k)..k :
        out.log[i].what = "vertex" =>
            Slot(out.triangles[out.log[k].count], out.log[i].vertexCount)
                = VertexOfLine(bytes, out.log[i].line)

\* log entry k of a text decoder run keeps the count of vertices of a facet
CountsVertices(bytes, out, k) ==
    /\ out.log[k].vertexCount <= 3
    /\ out.log[k].what = "vertex" =>
          out.log[k].vertexCount = CounterBefore(out.log, k) + 1
    /\ out.log[k].what = "endloop" => out.log[k].vertexCount = 3
    /\ /\ out.log[k].what = "error"
       /\ StateBefore(out.log, k) = "InLoop"
       /\ IsVertexLine(bytes, out.log[k].line)
       /\ CounterBefore(out.log, k) = 3
       => /\ out.result = "CorruptedFile"
          /\ out.errorString = ErrorText("Line %1: Triangle has too many vertices", out.log[k].line)
    /\ /\ StateBefore(out.log, k) = "InLoop"
       /\ KeywordAt(bytes, out.log[k].line) = "endloop"
       /\ CounterBefore(out.log, k) < 3
       => /\ out.log[k].what = "error"
          /\ out.result = "CorruptedFile"
          /\ out.errorString
               = ErrorText("Line %1: Triangle has %2 vertices but should have exactly 3",
                           out.log[k].line)
    /\ /\ out.log[k].what = "endfacet"
       /\ out.log[k].count = out.log[k - 1].count + 1
       /\ \E i \in FacetOf(out.log, k)..k : out.log[i].what = "vertex"
       => SlotsInOrder(bytes, out, k)

\* C21: in a text file the counter of vertex lines of a facet never exceeds 3; a
\* vertex line read in a loop when the counter is 3 ends the decoding with
\* CorruptedFile ("too many vertices"); an 'endloop' read in a loop when the
\* counter is below 3 ends it with CorruptedFile; an accepted 'endloop' leaves the
\* counter at 3; and the triangle appended at 'endfacet' holds the vertex lines of
\* its facet in slots 1, 2, 3 in the order they were read.
C21_LoopClosesWithThreeVertices ==
    detected = "ASCII" /\ lastCut = 0 =>
        \A k \in 1..Len(decoded.log) : CountsVertices(FS[lastFile].bytes, decoded, k)

\* C21 witness: a fourth vertex line in a loop stopped the decoder with the
\* counter at 3.
C21_Witness ==
    /\ detected = "ASCII" /\ lastFile.body = <<"f", "o", "v", "stray">>
    /\ Len(decoded.log) = 6 /\ decoded.log[5].vertexCount = 3
    /\ decoded.log[6].what = "error" /\ result = "CorruptedFile"
    /\ decoded.errorString.msg = "Line %1: Triangle has too many vertices"

\* the first n lines of a file, each with its line end
UpToLine(bytes, n) == Concat([i \in 1..n |-> SplitLines(bytes)[i] \o <<NL>>])

\* physical line n of the file has the keyword 'endsolid'
IsEndsolidLine(bytes, n) ==
    /\ parseASCIILine(trimmed(SplitLines(bytes)[n])).ok
    /\ parseASCIILine(trimmed(SplitLines(bytes)[n])).keyword = Bytes("endsolid")

\* log entry k of a text decoder run is an 'endsolid' that ended the run
EndsTheRun(bytes, out, k) ==
    /\ out.log[k].what = "endsolid"
    /\ k = Len(out.log)
    /\ GrammarState(out.log[k]) = StateBefore(out.log, k)
    /\ out.triangles = SubSeq(out.triangles, 1, out.log[k].count)
    /\ out.log[k].count = (IF k = 1 THEN 0 ELSE out.log[k - 1].count)
    /\ out.result = (IF out.log[k].count = 0 THEN "EmptyFile" ELSE "Success")
    /\ SameOutcome(out, loadASCIISTL(UpToLine(bytes, out.log[k].line), <<>>, NoError))

\* C22: an 'endsolid' line the text decoder reads, in whichever of the states
\* Idle, InFacet, InLoop, is the last line it interprets: the run ends there
\* without CorruptedFile, with the triangles accepted before that line (Success
\* if there is one, EmptyFile if none), and the result and the triangles are
\* those of the file cut off after that line.
C22_EndsolidEndsParsing ==
    detected = "ASCII" /\ lastCut = 0 =>
        \A k \in 1..Len(decoded.log) :
            IsEndsolidLine(FS[lastFile].bytes, decoded.log[k].line)
                => EndsTheRun(FS[lastFile].bytes, decoded, k)

\* C22 witness: 'endsolid' was read inside a loop, after one triangle and before a
\* further complete facet; the load succeeded with the one triangle.
C22_Witness ==
    /\ detected = "ASCII" /\ lastFile.body = <<"A", "open", "end", "A">>
    /\ decoded.log[Len(decoded.log)].what = "endsolid"
    /\ GrammarState(decoded.log[Len(decoded.log)]) = "InLoop"
    /\ decoded.log[Len(decoded.log)].line < Len(SplitLines(FS[lastFile].bytes))
    /\ result = "Success" /\ Len(decoded.triangles) = 1

\* the lines of a file that are not blank
NonEmptyLines(bytes) ==
    {n \in 1..Len(SplitLines(bytes)) : trimmed(SplitLines(bytes)[n]) # <<>>}

\* the first non-empty line of a file starts with 'solid' in any letter case
FirstNonEmptyIsSolid(bytes) ==
    /\ NonEmptyLines(bytes) # {}
    /\ startsWith(toLower(trimmed(SplitLines(bytes)[Least(NonEmptyLines(bytes))])),
                  ASCII_STL_HEADER)

\* C23: a text file is accepted by the check of its opening line exactly if its
\* first non-empty line starts with 'solid' in any letter case: blank lines
\* before that line do not make the load fail with InvalidFormat, and a file
\* whose first non-empty line starts otherwise fails with InvalidFormat.
C23_FirstNonEmptyLineDecides ==
    lastFile.k = "text" /\ lastCut = 0 =>
        (FirstNonEmptyIsSolid(FS[lastFile].bytes) <=> result # "InvalidFormat")

\* a component of a written normal: 0 for a token that is no number, a NaN or an
\* Inf, else its value
ComponentOf(tok) ==
    IF ~toFloat(tok).ok \/ qIsNaN(toFloat(tok).f) \/ qIsInf(toFloat(tok).f)
    THEN 0 ELSE toFloat(tok).f.val

\* the normal written on the 'facet normal' line n, component by component
NormalOfLine(bytes, n) ==
    Vec(ComponentOf(parseASCIILine(trimmed(SplitLines(bytes)[n])).values[2]),
        ComponentOf(parseASCIILine(trimmed(SplitLines(bytes)[n])).values[3]),
        ComponentOf(parseASCIILine(trimmed(SplitLines(bytes)[n])).values[4]))

\* the triangle appended at the 'endfacet' of log entry k has the normal written
\* on the line that opened its facet
KeepsWrittenNormal(bytes, out, k) ==
    /\ out.log[k].what = "endfacet"
    /\ out.log[k].count = out.log[k - 1].count + 1
    => out.triangles[out.log[k].count].normal
         = NormalOfLine(bytes, out.log[FacetOf(out.log, k)].line)

\* C24: on a 'facet normal' line a component that does not parse as a number, or
\* is NaN or Inf, is replaced by 0 and the other components keep their parsed
\* values; the line is never fatal: read in Idle it opens the facet.
C24_NormalComponentsFixedAlone ==
    detected = "ASCII" /\ lastCut = 0 =>
        \A k \in 1..Len(decoded.log) :
            /\ KeepsWrittenNormal(FS[lastFile].bytes, decoded, k)
            /\ /\ KeywordAt(FS[lastFile].bytes, decoded.log[k].line) = "facet"
               /\ StateBefore(decoded.log, k) = "Idle"
               => decoded.log[k].what = "facet"

\* two normals v / sqrt(r) are the same vector
SameVector(a, b) ==
    \A j \in 1..3 :
        /\ a.v[j] * a.v[j] * b.r = b.v[j] * b.v[j] * a.r
        /\ (a.v[j] > 0) = (b.v[j] > 0)

\* n is the vector c scaled to length 1
UnitAlong(n, c) ==
    /\ lengthSquared(n.v) = n.r
    /\ crossProduct(n.v, c) = Vec(0, 0, 0)
    /\ Dot(n.v, c) > 0

\* (v2 - v1) x (v3 - v1) of a triangle, in units of 1/Den^2
CrossOf(t) == crossProduct(VSub(t.vertex2, t.vertex1), VSub(t.vertex3, t.vertex1))

\* n is the normal stated for triangle t
StatedNormal(n, t, recompute) ==
    IF ~recompute /\ ~LtPow10(lengthSquared(t.normal), Den * Den, 3)
    THEN SameVector(n, Normal(t.normal, Den * Den))
    ELSE IF LePow10(lengthSquared(CrossOf(t)), Den * Den * Den * Den, 12)
    THEN SameVector(n, Normal(Vec(0, 0, 1), 1))
    ELSE UnitAlong(n, CrossOf(t))

\* C25: after a successful load without welding, the three corners of every
\* triangle carry the same normal, and it is the stored normal of the triangle,
\* unchanged, when recomputing is off and the stored squared length is at least
\* 0.001; otherwise it is (v2 - v1) x (v3 - v1) scaled to length 1, or (0,0,1)
\* when the squared length of that cross product is at most 1e-12.
C25_EmittedNormal ==
    result = "Success" /\ ~mergeVertices =>
        \A i \in 1..Len(triangles) : \A c \in 1..3 :
            /\ vertices[3 * (i - 1) + c].normal = vertices[3 * (i - 1) + 1].normal
            /\ StatedNormal(vertices[3 * (i - 1) + c].normal, triangles[i], calculateNormals)

\* the corner at which unique vertex j (counted from 0) is first used
FirstUse(j) == Least({k \in 1..Len(indices) : indices[k] = j})

\* the unique vertices accepted before corner k that lie within the tolerance of it
Candidates(k) ==
    {j \in 0..(Len(vertices) - 1) :
        /\ FirstUse(j) < k
        /\ WithinTolerance(vertices[j + 1].position, CornerAt(triangles, k))}

\* corner k got the smallest candidate, or, with no candidate, a vertex appended
\* for it
FirstMatchWins(k) ==
    IF Candidates(k) # {}
    THEN indices[k] = Least(Candidates(k))
    ELSE /\ FirstUse(indices[k]) = k
         /\ indices[k] = Cardinality({j \in 0..(Len(vertices) - 1) : FirstUse(j) < k})

\* unique vertex j has the position and the normal of the corner that created it
KeptFromCreator(j) ==
    vertices[j + 1]
      = STLVertex(CornerAt(triangles, FirstUse(j)),
                  EmittedNormal(triangles[(FirstUse(j) + 2) \div 3], calculateNormals))

\* C26: welding is first-match-wins in insertion order: every corner, in corner
\* order, gets the smallest index of a unique vertex accepted before it whose
\* position is within the tolerance of it, and a new unique vertex is appended
\* only when there is none; a unique vertex has the position and the normal of
\* the corner that created it; the unique vertices are pairwise at least the
\* tolerance apart.
C26_FirstMatchWins ==
    result = "Success" /\ mergeVertices =>
        /\ Len(indices) = 3 * Len(triangles)
        /\ \A k \in 1..Len(indices) : indices[k] \in 0..(Len(vertices) - 1)
        /\ \A j \in 0..(Len(vertices) - 1) : \E k \in 1..Len(indices) : indices[k] = j
        /\ \A k \in 1..Len(indices) : FirstMatchWins(k)
        /\ \A j \in 0..(Len(vertices) - 1) : KeptFromCreator(j)
        /\ \A i, j \in 1..Len(vertices) :
              i < j => ~WithinTolerance(vertices[i].position, vertices[j].position)

\* C26 witness: welded with the tolerance 1.5, the corner (1,0,0) of the second
\* triangle is within the tolerance of two unique vertices, (0,0,0) and (2,0,0),
\* and got the index of the first; the three unique vertices are those of the
\* first triangle.
C26_Witness ==
    /\ result = "Success" /\ mergeVertices /\ ~autoCenter /\ ~autoNormalize
    /\ lastFile.body = <<"B", "A">> /\ vertexTolerance = Tolerance(15, 1)
    /\ Candidates(5) = {0, 1}
    /\ indices = <<0, 1, 2, 0, 0, 0>>
    /\ Len(vertices) = 3

\* the log entries of the vertex lines of the facet closed at entry k
VertexLinesOf(log, k) == {i \in FacetOf(log, k)..k : log[i].what = "vertex"}

\* the facet closed at entry k had a loop that was closed
LoopCompleted(log, k) == \E i \in FacetOf(log, k)..k : log[i].what = "endloop"

\* the 'endfacet' of log entry k appended a triangle
Appended(log, k) == log[k].count = log[k - 1].count + 1

\* C27: a triangle the text decoder appends at an 'endfacet' is built from the
\* three vertex lines read since the 'facet normal' of that facet, in the order
\* read; an 'endfacet' of a facet without a completed loop appends no triangle.
C27_TriangleFromItsOwnVertexLines ==
    detected = "ASCII" /\ lastCut = 0 =>
        \A k \in 1..Len(decoded.log) :
            decoded.log[k].what = "endfacet" /\ Appended(decoded.log, k) =>
                /\ LoopCompleted(decoded.log, k)
                /\ Cardinality(VertexLinesOf(decoded.log, k)) = 3
                /\ SlotsInOrder(FS[lastFile].bytes, decoded, k)

\* no read of a binary decoder run failed
NoShortRead(log) == \A k \in 1..Len(log) : ~log[k].failed

\* every iteration of a binary decoder run started where the one before it
\* stopped, read at most one record's length, and stopped within the file
ReadsInBounds(bytes, log) ==
    \A k \in 1..Len(log) :
        /\ log[k].start = (IF k = 1 THEN BINARY_STL_HEADER_SIZE + 4 ELSE log[k - 1].pos)
        /\ log[k].pos - log[k].start <= BINARY_STL_TRIANGLE_SIZE
        /\ log[k].pos <= Len(bytes)

\* the statement of C28 without a condition on the file: a load that went to the
\* binary decoder had no short read and ended in Success or EmptyFile
C28_BinaryLoadNeverShortReads ==
    detected = "Binary" =>
        /\ NoShortRead(decoded.log)
        /\ result \in {"Success", "EmptyFile"}

\* C28: when the file the decoder opens is the file that was detected as binary,
\* the binary decoder never reads past its end: the file has 84 + 50 * N bytes
\* for the N > 0 iterations made, every iteration reads at most 50 bytes from
\* where the one before stopped, no read fails, and the load ends in Success or
\* EmptyFile, never in ReadError or CorruptedFile.
C28_UnchangedBinaryFileIsReadInBounds ==
    detected = "Binary" /\ lastCut = 0 =>
        /\ Len(decoded.log) > 0
        /\ Len(FS[lastFile].bytes)
             = BINARY_STL_HEADER_SIZE + 4 + BINARY_STL_TRIANGLE_SIZE * Len(decoded.log)
        /\ ReadsInBounds(FS[lastFile].bytes, decoded.log)
        /\ NoShortRead(decoded.log)
        /\ result \in {"Success", "EmptyFile"}

\* C28 witness: in an unchanged two-record file the first record was skipped after
\* its normal, 12 bytes read; the second iteration read 50 bytes from there and
\* the load succeeded 38 bytes before the end of the file.
C28_Witness ==
    /\ detected = "Binary" /\ lastCut = 0 /\ lastFile.body = <<"NanN", "A">>
    /\ decoded.log[1].kind = "badNormal" /\ decoded.log[1].pos = 96
    /\ decoded.log[2].pos = 146 /\ Len(FS[lastFile].bytes) = 184
    /\ result = "Success"

\* the count N with 84 + 50 * N = size, for a size that has one
RecordsIn(size) == (size - (BINARY_STL_HEADER_SIZE + 4)) \div BINARY_STL_TRIANGLE_SIZE

\* the verdict of the binary test in unbounded integers: the size is
\* 84 + 50 * N for the declared N, and 0 < N < 50,000,000
UnboundedVerdict(bytes) ==
    /\ Len(bytes) >= BINARY_STL_HEADER_SIZE + 4
    /\ (Len(bytes) - (BINARY_STL_HEADER_SIZE + 4)) % BINARY_STL_TRIANGLE_SIZE = 0
    /\ CountAt80(bytes) = U32(RecordsIn(Len(bytes)) \div 65536, RecordsIn(Len(bytes)) % 65536)
    /\ RecordsIn(Len(bytes)) > 0
    /\ RecordsIn(Len(bytes)) < SanityHi * 65536 + SanityLo

\* the size computed in 32 bits from the declared count equals the size of the file
WrappedSizeMatches(bytes) ==
    /\ Len(bytes) >= BINARY_STL_HEADER_SIZE + 4
    /\ EqualsU32(Len(bytes), U32Add(U32Mul(CountAt80(bytes), BINARY_STL_TRIANGLE_SIZE),
                                    BINARY_STL_HEADER_SIZE + 4))

\* C29: the binary test computes 80 + 4 + N * 50 in 32-bit unsigned arithmetic,
\* and its verdict is the one unbounded integers give: a file is detected as
\* binary exactly if its size is 84 + 50 * N for its declared count N and
\* 0 < N < 50,000,000; a count whose 32-bit product wraps around to the size of
\* the file is not taken for binary.
C29_NoWrapAroundVerdict ==
    lastFile # NoPath /\ FS[lastFile].readable /\ FS[lastFile].bytes # <<>> =>
        /\ isBinarySTL(FS[lastFile]) = UnboundedVerdict(FS[lastFile].bytes)
        /\ (detected = "Binary") = UnboundedVerdict(FS[lastFile].bytes)

\* C29 witness: a file of one record whose declared count is 1 + 2^31: computed
\* in 32 bits the expected size equals the size of the file, and the file was not
\* detected as binary.
C29_Witness ==
    /\ lastFile.k = "bin" /\ lastFile.c = "wrap"
    /\ CountAt80(FS[lastFile].bytes) = U32(32768, 1)
    /\ WrappedSizeMatches(FS[lastFile].bytes)
    /\ ~UnboundedVerdict(FS[lastFile].bytes)
    /\ detected # "Binary" /\ result # "None"

\* the lines of a file after its first
LinesAfterFirst(bytes) == Len(SplitLines(bytes)) - 1

\* a text decoder run read every line of the file, met no 'endsolid' and no
\* error on any of them, and had a facet open after the last
EndedInsideFacet(bytes, log) ==
    /\ LinesAfterFirst(bytes) >= 1
    /\ Len(log) >= LinesAfterFirst(bytes)
    /\ \A k \in 1..LinesAfterFirst(bytes) : log[k].what \notin {"endsolid", "error"}
    /\ GrammarState(log[LinesAfterFirst(bytes)]) \in {"InFacet", "InLoop"}

\* C30: a text file that ends, without 'endsolid', inside a facet or a loop is no
\* error: the unfinished facet adds no triangle, and the decoder returns Success
\* if a triangle was accepted before and EmptyFile otherwise, never CorruptedFile.
C30_EndOfFileInsideFacet ==
    /\ detected = "ASCII" /\ lastCut = 0
    /\ EndedInsideFacet(FS[lastFile].bytes, decoded.log)
    => /\ Len(decoded.log) = LinesAfterFirst(FS[lastFile].bytes)
       /\ Len(decoded.triangles) = decoded.log[FacetOf(decoded.log, Len(decoded.log))].count
       /\ decoded.result = (IF decoded.triangles = <<>> THEN "EmptyFile" ELSE "Success")
       /\ result = decoded.result

\* C30 witness: a file with one complete facet that ends after the first vertex
\* line of a second facet was loaded with Success and one triangle.
C30_Witness ==
    /\ detected = "ASCII" /\ lastCut = 0 /\ lastFile.body = <<"A", "open">>
    /\ EndedInsideFacet(FS[lastFile].bytes, decoded.log)
    /\ GrammarState(decoded.log[Len(decoded.log)]) = "InLoop"
    /\ result = "Success" /\ Len(triangles) = 1

====
